---- MODULE Spec2Model ----
(***************************************************************************)
(* Model of the distributed coordination layer of Mind                     *)
(* (src/src/mind/distributed): the Fault Recovery circuit breaker          *)
(* (fault_recovery.py), the State Synchronizer (state_sync.py), the        *)
(* JSON-RPC server and its TCP listener (rpc_server.py) and the agent      *)
(* registry (agent_network.py) and the load balancer (load_balancer.py).   *)
(*                                                                         *)
(* Python dicts are modelled as functions whose DOMAIN is the set of keys  *)
(* present.  datetime.now() is a discrete clock `now` advanced by Tick.    *)
(* uuid4() is a fresh-id counter.                                          *)
(***************************************************************************)
EXTENDS Integers, Sequences, FiniteSets, TLC

(***************************************************************************)
(* Bounds of the model                                                     *)
(***************************************************************************)
MaxThreshold == 3      \* failure_threshold is drawn from 1..MaxThreshold
MaxTimeout == 1        \* reset_timeout is drawn from 0..MaxTimeout
MaxTime == 1           \* the clock runs over 0..MaxTime
MaxFailures == 4       \* at most this many register_failure calls

MaxChanges == 2        \* at most this many StateChange entries in the ledger
MaxVersion == 2        \* sync_state versions are drawn from 0..MaxVersion

MaxRequests == 2       \* at most this many handle_request calls
MaxAgents == 2         \* at most this many register_agent calls
MaxCalls == 3          \* at most this many assign_task and complete_task calls

Agents == {"agent1", "agent2"}
Keys == {"x", "y"}
Values == {"a", "b"}
Versions == 0..MaxVersion
SelfId == "agent0"     \* StateSync.agent_id
None == "None"         \* Python None where a value is expected
Threads == {"t1", "t2"}
Conns == {"c1", "c2"}  \* the client connections
RaceKey == "x"         \* the key both threads write

(***************************************************************************)
(* Program constants                                                       *)
(***************************************************************************)
SuccessThreshold == 3  \* fault_recovery.py:158
MaxRetries == 3        \* fault_recovery.py:212
HeartbeatTimeout == 30 \* agent_network.py:60

CLOSED == "closed"
OPEN == "open"
HALF_OPEN == "half_open"
CircuitState == {CLOSED, OPEN, HALF_OPEN}

NoTime == -1           \* Optional[str] = None for a timestamp


VARIABLES
    \* ---- FaultRecovery ----
    failure_threshold,     \* self.failure_threshold
    reset_timeout,         \* self.reset_timeout
    now,                   \* datetime.now()
    failures,              \* self.failures: number of Failure records per agent_id
    failures_file,         \* failures.jsonl: number of lines per agent_id
    circuit_breakers,      \* self.circuit_breakers: agent_id -> CircuitBreakerState
    recovery_strategies,   \* keys of self.recovery_strategies
    \* ---- history (observation only) ----
    run,                   \* register_failure calls per agent since its last record_success
    clean_run,             \* register_failure calls since the breaker was absent or
                           \*   closed with failure_count 0, -1 once a record_success
                           \*   intervened without restoring that state
    half_open_successes    \* record_success calls per agent since it entered half_open

VARIABLES
    \* ---- StateSync ----
    local_state,           \* self.local_state: key -> value
    state_versions,        \* self.state_versions: key -> StateVersion
    changes,               \* self.changes in insertion order
    replicas,              \* self.replicas: agent_id -> (key -> value)
    uuid_next,             \* the next value uuid4() returns
    state_file,            \* <agent_id>_state.json
    versions_file,         \* <agent_id>_versions.json
    changes_file,          \* <agent_id>_changes.jsonl
    ss_last,               \* the write call (set_state, sync_state, resolve_conflict)
                           \*   of the last step and what it returned, NoWrite after
                           \*   any other call; the arguments of a sync_state are
                           \*   kept only if it was accepted
    \* ---- history (observation only) ----
    accepted_version       \* per key the highest version of an accepted sync_state

ssVars == <<local_state, state_versions, changes, replicas, uuid_next,
            state_file, versions_file, changes_file, ss_last, accepted_version>>

VARIABLES
    \* ---- two threads inside set_state / sync_state of one StateSync ----
    thread_pc,             \* per thread the line of state_sync.py it is about to run
    thread_frame,          \* per thread its arguments and local variables
    race_base              \* current version of RaceKey when the first thread called

rcVars == <<thread_pc, thread_frame, race_base>>

frVars == <<failure_threshold, reset_timeout, now, failures, failures_file,
            circuit_breakers, recovery_strategies,
            run, clean_run, half_open_successes>>

VARIABLES
    \* ---- RPCServer ----
    methods,               \* self.methods: name -> callable
    call_history,          \* self.call_history: request_id -> RPCCall
    calls_file,            \* <agent_id>_calls.jsonl, one RPCCall per line
    rpc_uuid_next,         \* the next value uuid4() returns
    rpc_now,               \* datetime.now(), one instant per handle_request call
    rpc_last,              \* what the last handle_request call gave its caller
    \* ---- history (observation only) ----
    rpc_handled,           \* handle_request calls so far
    rpc_dispatched,        \* handle_request calls that invoked a handler
    rpc_ids,               \* the ids carried by the requests so far
    rpc_ids_distinct       \* no two requests so far carried the same id

rpcVars == <<methods, call_history, calls_file, rpc_uuid_next, rpc_now,
             rpc_last, rpc_handled, rpc_dispatched, rpc_ids, rpc_ids_distinct>>

VARIABLES
    \* ---- RPCServer listener ----
    server_socket,         \* self._server_socket
    listening_thread,      \* self._listening_thread
    stop_event_ref,        \* self._stop_event
    srv,                   \* the listening socket: unbound, listening, closed
    stop_event,            \* the threading.Event of the running accept loop
    accept_pc,             \* the line the accept loop thread is about to run
    accept_conn,           \* conn of the accept loop (line 313)
    caller_pc,             \* where the thread calling start/stop_listening is
    backlog,               \* connections the kernel queued for accept
    conns,                 \* per connection: its request, handler thread, reply
    \* ---- history (observation only) ----
    polls_after_stop,      \* accept calls begun after the stop event was set
    ln_overlap             \* two handlers were storing records at once

lnVars == <<server_socket, listening_thread, stop_event_ref, srv, stop_event,
            accept_pc, accept_conn, caller_pc, backlog, conns,
            polls_after_stop, ln_overlap>>

VARIABLES
    \* ---- AgentNetwork ----
    agents,                \* self.agents: agent_id -> AgentInfo
    connections,           \* self.connections: agent_id -> set of peer ids
    heartbeat_timeout,     \* self.heartbeat_timeout
    an_now,                \* datetime.now()
    an_uuid_next,          \* the next value uuid4() returns
    network_file,          \* <network>_agents.jsonl, one AgentInfo per line
    \* ---- history (observation only) ----
    an_last                \* the last registry call and what it returned

anVars == <<agents, connections, heartbeat_timeout, an_now, an_uuid_next,
            network_file, an_last>>

VARIABLES
    \* ---- LoadBalancer ----
    assignments,           \* self.assignments: task_id -> TaskAssignment
    agent_loads,           \* self.agent_loads: agent_id -> AgentLoad
    round_robin_index,     \* self.round_robin_index
    assignments_file,      \* assignments.jsonl: task_id -> its last line
    \* ---- history (observation only) ----
    lb_calls,              \* number of assign_task and complete_task calls
    lb_last,               \* the last balancer call and what it returned
    rr_run                 \* the round robin picks over the current list

lbVars == <<assignments, agent_loads, round_robin_index, assignments_file,
            lb_calls, lb_last, rr_run>>

VARIABLES
    \* ---- a second StateSync instance ----
    writer                 \* the StateSync object of the writing agent

wrVars == <<writer>>

VARIABLES
    \* ---- start_listening called with keyword arguments ----
    start_call             \* the last call that did not bind: the value passed
                           \*   for framed and the exception it raised

stVars == <<start_call>>

svcVars == <<rpcVars, lnVars, anVars, lbVars, wrVars, stVars>>

vars == <<frVars, ssVars, rcVars, svcVars>>

(***************************************************************************)
(* CircuitBreakerState(agent_id=...) with the dataclass defaults           *)
(***************************************************************************)
CircuitBreakerState(agent_id) ==
    [agent_id |-> agent_id,
     state |-> CLOSED,
     failure_count |-> 0,
     success_count_since_open |-> 0,
     last_failure_time |-> NoTime]

Max(x, y) == IF x >= y THEN x ELSE y

\* if agent_id not in self.circuit_breakers: self.circuit_breakers[agent_id] = ...
EnsureBreaker(cbs, agent_id) ==
    IF agent_id \in DOMAIN cbs THEN cbs
    ELSE (agent_id :> CircuitBreakerState(agent_id)) @@ cbs

\* register_failure with the threshold test written > instead of >=
register_failure_strict(cbs, agent_id, threshold, t) ==
    LET cbs1 == EnsureBreaker(cbs, agent_id)
        cb == cbs1[agent_id]
        cb1 == [cb EXCEPT !.failure_count = cb.failure_count + 1,
                          !.last_failure_time = t]
        cb2 == IF cb1.failure_count > threshold /\ cb1.state = CLOSED
               THEN [cb1 EXCEPT !.state = OPEN]
               ELSE cb1
    IN [cbs1 EXCEPT ![agent_id] = cb2]

(***************************************************************************)
(* register_failure: the circuit breaker update (lines 123-138)            *)
(***************************************************************************)
register_failure(cbs, agent_id, threshold, t) ==
    LET cbs1 == EnsureBreaker(cbs, agent_id)
        cb == cbs1[agent_id]
        cb1 == [cb EXCEPT !.failure_count = cb.failure_count + 1,
                          !.last_failure_time = t]
        cb2 == IF cb1.failure_count >= threshold /\ cb1.state = CLOSED
               THEN [cb1 EXCEPT !.state = OPEN]
               ELSE cb1
    IN [cbs1 EXCEPT ![agent_id] = cb2]

\* record_success counting successes in every state but closed, so that an
\* open breaker closes as well
record_success_any_state(cbs, agent_id) ==
    LET cbs1 == EnsureBreaker(cbs, agent_id)
        cb == cbs1[agent_id]
        cb2 == IF cb.state # CLOSED
               THEN LET n == cb.success_count_since_open + 1
                    IN IF n >= SuccessThreshold
                       THEN [cb EXCEPT !.state = CLOSED,
                                       !.failure_count = 0,
                                       !.success_count_since_open = 0]
                       ELSE [cb EXCEPT !.success_count_since_open = n]
               ELSE [cb EXCEPT !.failure_count = Max(0, cb.failure_count - 1)]
    IN [cbs1 EXCEPT ![agent_id] = cb2]

\* record_success that closes the circuit without clearing failure_count
record_success_keeps_failures(cbs, agent_id) ==
    LET cbs1 == EnsureBreaker(cbs, agent_id)
        cb == cbs1[agent_id]
        cb2 == IF cb.state = HALF_OPEN
               THEN LET n == cb.success_count_since_open + 1
                    IN IF n >= SuccessThreshold
                       THEN [cb EXCEPT !.state = CLOSED,
                                       !.success_count_since_open = 0]
                       ELSE [cb EXCEPT !.success_count_since_open = n]
               ELSE IF cb.state = CLOSED
               THEN [cb EXCEPT !.failure_count = Max(0, cb.failure_count - 1)]
               ELSE cb
    IN [cbs1 EXCEPT ![agent_id] = cb2]

(***************************************************************************)
(* record_success (lines 142-167)                                          *)
(***************************************************************************)
record_success(cbs, agent_id) ==
    LET cbs1 == EnsureBreaker(cbs, agent_id)
        cb == cbs1[agent_id]
        cb2 == IF cb.state = HALF_OPEN
               THEN LET n == cb.success_count_since_open + 1
                    IN IF n >= SuccessThreshold
                       THEN [cb EXCEPT !.state = CLOSED,
                                       !.failure_count = 0,
                                       !.success_count_since_open = 0]
                       ELSE [cb EXCEPT !.success_count_since_open = n]
               ELSE IF cb.state = CLOSED
               THEN [cb EXCEPT !.failure_count = Max(0, cb.failure_count - 1)]
               ELSE cb
    IN [cbs1 EXCEPT ![agent_id] = cb2]

\* is_agent_healthy with the timeout test written >= instead of >
is_agent_healthy_at_timeout(cbs, agent_id, timeout, t) ==
    IF agent_id \notin DOMAIN cbs
    THEN [ret |-> TRUE, cbs |-> cbs]
    ELSE LET cb == cbs[agent_id]
         IN IF cb.state = OPEN
            THEN IF cb.last_failure_time # NoTime
                    /\ (t - cb.last_failure_time) >= timeout
                 THEN [ret |-> TRUE,
                       cbs |-> [cbs EXCEPT ![agent_id] =
                                   [cb EXCEPT !.state = HALF_OPEN,
                                              !.success_count_since_open = 0]]]
                 ELSE [ret |-> FALSE, cbs |-> cbs]
            ELSE [ret |-> TRUE, cbs |-> cbs]

(***************************************************************************)
(* is_agent_healthy (lines 169-199): the returned value and the breakers   *)
(***************************************************************************)
is_agent_healthy(cbs, agent_id, timeout, t) ==
    IF agent_id \notin DOMAIN cbs
    THEN [ret |-> TRUE, cbs |-> cbs]
    ELSE LET cb == cbs[agent_id]
         IN IF cb.state = OPEN
            THEN IF cb.last_failure_time # NoTime
                    /\ (t - cb.last_failure_time) > timeout
                 THEN [ret |-> TRUE,
                       cbs |-> [cbs EXCEPT ![agent_id] =
                                   [cb EXCEPT !.state = HALF_OPEN,
                                              !.success_count_since_open = 0]]]
                 ELSE [ret |-> FALSE, cbs |-> cbs]
            ELSE [ret |-> TRUE, cbs |-> cbs]

(***************************************************************************)
(* can_retry (lines 201-215)                                               *)
(***************************************************************************)
can_retry(cbs, agent_id, retry_count, timeout, t) ==
    IF retry_count >= MaxRetries
    THEN [ret |-> FALSE, cbs |-> cbs]
    ELSE is_agent_healthy(cbs, agent_id, timeout, t)

(***************************************************************************)
(* History bookkeeping: what changed between circuit_breakers and its      *)
(* primed value.  Purely observational.                                    *)
(***************************************************************************)
StateOf(cbs, a) == IF a \in DOMAIN cbs THEN cbs[a].state ELSE "none"

Changed(old, new) ==
    {<<StateOf(old, a), StateOf(new, a)>> : a \in
        {b \in DOMAIN old \cap DOMAIN new : old[b].state # new[b].state}}

IsClean(cbs, a) ==
    a \notin DOMAIN cbs \/ (cbs[a].state = CLOSED /\ cbs[a].failure_count = 0)

ObserveHalfOpen ==
    half_open_successes' =
        [a \in Agents |->
            IF StateOf(circuit_breakers', a) # HALF_OPEN THEN 0
            ELSE IF StateOf(circuit_breakers, a) # HALF_OPEN THEN 0
            ELSE half_open_successes[a]]

ObserveSuccess(agent_id) ==
    /\ run' = [run EXCEPT ![agent_id] = 0]
    /\ clean_run' = [clean_run EXCEPT ![agent_id] =
                        IF IsClean(circuit_breakers', agent_id) THEN 0 ELSE -1]
    /\ half_open_successes' =
        [half_open_successes EXCEPT ![agent_id] =
            IF StateOf(circuit_breakers', agent_id) = HALF_OPEN THEN @ + 1 ELSE 0]

(***************************************************************************)
(* Actions of FaultRecovery                                                *)
(***************************************************************************)
FrInit ==
    /\ failure_threshold \in 1..MaxThreshold
    /\ reset_timeout \in 0..MaxTimeout
    /\ now = 0
    /\ failures = [a \in Agents |-> 0]
    /\ failures_file = [a \in Agents |-> 0]
    /\ circuit_breakers = <<>>
    /\ recovery_strategies = {}
    /\ run = [a \in Agents |-> 0]
    /\ clean_run = [a \in Agents |-> 0]
    /\ half_open_successes = [a \in Agents |-> 0]

RECURSIVE Sum(_, _)
Sum(f, S) == IF S = {} THEN 0
             ELSE LET x == CHOOSE y \in S : TRUE IN f[x] + Sum(f, S \ {x})

\* len(self.failures)
TotalFailures == Sum(failures, Agents)

\* datetime.now() moves on between two calls
Tick ==
    /\ UNCHANGED <<ssVars, rcVars, svcVars>>
    /\ now < MaxTime
    /\ now' = now + 1
    /\ UNCHANGED <<failure_threshold, reset_timeout, failures, failures_file,
                   circuit_breakers, recovery_strategies,
                   run, clean_run, half_open_successes>>

RegisterFailure(agent_id) ==
    /\ UNCHANGED <<ssVars, rcVars, svcVars>>
    /\ TotalFailures < MaxFailures
    /\ failures' = [failures EXCEPT ![agent_id] = @ + 1]
    /\ failures_file' = [failures_file EXCEPT ![agent_id] = @ + 1]
    /\ circuit_breakers' =
          register_failure(circuit_breakers, agent_id, failure_threshold, now)
    /\ ObserveHalfOpen
    /\ run' = [run EXCEPT ![agent_id] = @ + 1]
    /\ clean_run' = [clean_run EXCEPT ![agent_id] = IF @ >= 0 THEN @ + 1 ELSE -1]
    /\ UNCHANGED <<failure_threshold, reset_timeout, now, recovery_strategies>>

RecordSuccess(agent_id) ==
    /\ UNCHANGED <<ssVars, rcVars, svcVars>>
    /\ circuit_breakers' = record_success(circuit_breakers, agent_id)
    /\ ObserveSuccess(agent_id)
    /\ UNCHANGED <<failure_threshold, reset_timeout, now, failures, failures_file,
                   recovery_strategies>>

IsAgentHealthy(agent_id) ==
    /\ UNCHANGED <<ssVars, rcVars, svcVars>>
    /\ LET r == is_agent_healthy(circuit_breakers, agent_id, reset_timeout, now)
       IN circuit_breakers' = r.cbs
    /\ ObserveHalfOpen
    /\ UNCHANGED <<failure_threshold, reset_timeout, now, failures, failures_file,
                   recovery_strategies, run, clean_run>>

CanRetry(agent_id, retry_count) ==
    /\ UNCHANGED <<ssVars, rcVars, svcVars>>
    /\ LET r == can_retry(circuit_breakers, agent_id, retry_count,
                          reset_timeout, now)
       IN circuit_breakers' = r.cbs
    /\ ObserveHalfOpen
    /\ UNCHANGED <<failure_threshold, reset_timeout, now, failures, failures_file,
                   recovery_strategies, run, clean_run>>

RegisterRecoveryStrategy(agent_id) ==
    /\ UNCHANGED <<ssVars, rcVars, svcVars>>
    /\ agent_id \notin recovery_strategies
    /\ recovery_strategies' = recovery_strategies \cup {agent_id}
    /\ UNCHANGED <<failure_threshold, reset_timeout, now, failures, failures_file,
                   circuit_breakers, run, clean_run,
                   half_open_successes>>

\* strategy_ok: the registered callable returned (TRUE) or raised (FALSE)
AttemptRecovery(agent_id, strategy_ok) ==
    /\ UNCHANGED <<ssVars, rcVars, svcVars>>
    /\ IF agent_id \in recovery_strategies /\ strategy_ok
       THEN /\ circuit_breakers' = record_success(circuit_breakers, agent_id)
            /\ ObserveSuccess(agent_id)
       ELSE UNCHANGED <<circuit_breakers, run, clean_run, half_open_successes>>
    /\ UNCHANGED <<failure_threshold, reset_timeout, now, failures, failures_file,
                   recovery_strategies>>

\* _load_failures (lines 331-346): every line of the file is a failure again
load_failures(file) == [a \in DOMAIN file |-> file[a]]

\* a new FaultRecovery is built over the same data directory with the same
\* arguments (__init__, lines 56-88)
FrRestart ==
    /\ UNCHANGED <<ssVars, rcVars, svcVars>>
    /\ failures' = load_failures(failures_file)
    /\ circuit_breakers' = <<>>
    /\ recovery_strategies' = {}
    /\ run' = [a \in Agents |-> 0]
    /\ clean_run' = [a \in Agents |-> 0]
    /\ half_open_successes' = [a \in Agents |-> 0]
    /\ UNCHANGED <<failure_threshold, reset_timeout, now, failures_file>>

(***************************************************************************)
(* Properties of the circuit breaker                                       *)
(***************************************************************************)
Breaker(cbs, a) == IF a \in DOMAIN cbs THEN cbs[a] ELSE CircuitBreakerState(a)

\* the step was a register_failure(a): the failure log grew by a record of a
FailureRegistered(a) == failures'[a] = failures[a] + 1

AllowedTransitions ==
    {<<CLOSED, OPEN>>, <<OPEN, HALF_OPEN>>, <<HALF_OPEN, CLOSED>>, <<HALF_OPEN, OPEN>>}

\* C1: every change of an agent's breaker state is closed->open,
\* open->half_open, half_open->closed or half_open->open; in particular never
\* closed->half_open and never open->closed.
C1_OnlyAllowedTransitions ==
    [][Changed(circuit_breakers, circuit_breakers') \subseteq AllowedTransitions]_vars

\* With threshold 1 a closed breaker that has seen a failure went through
\* closed -> open -> half_open -> closed.
C1_Witness ==
    \E a \in DOMAIN circuit_breakers :
        /\ failure_threshold = 1
        /\ circuit_breakers[a].state = CLOSED
        /\ circuit_breakers[a].last_failure_time # NoTime

\* C5: from a clean breaker (absent, or closed with failure_count 0), fewer
\* than failure_threshold register_failure calls with no record_success in
\* between leave it closed, the failure_threshold-th opens it, and the
\* breakers of the other agents are unaffected.
C5_StillClosedBelowThreshold ==
    \A a \in Agents :
        (clean_run[a] >= 0 /\ clean_run[a] < failure_threshold)
            => StateOf(circuit_breakers, a) \in {"none", CLOSED}

C5_FailureStep ==
    \A a \in Agents :
        FailureRegistered(a) =>
            /\ clean_run'[a] = failure_threshold
                  => StateOf(circuit_breakers', a) = OPEN
            /\ \A b \in Agents \ {a} :
                  /\ (b \in DOMAIN circuit_breakers') = (b \in DOMAIN circuit_breakers)
                  /\ Breaker(circuit_breakers', b) = Breaker(circuit_breakers, b)

C5_OpensAtThreshold ==
    [](C5_StillClosedBelowThreshold) /\ [][C5_FailureStep]_vars

C5_Witness ==
    \E a \in Agents, b \in Agents :
        /\ a # b
        /\ failure_threshold >= 2
        /\ clean_run[a] = failure_threshold
        /\ StateOf(circuit_breakers, a) = OPEN
        /\ circuit_breakers[a].failure_count = failure_threshold
        /\ StateOf(circuit_breakers, b) = CLOSED
        /\ circuit_breakers[b].failure_count >= 1

\* C6: is_agent_healthy returns true and changes nothing for an absent, closed
\* or half_open breaker; for an open breaker it returns false and changes
\* nothing while now - last_failure_time <= reset_timeout, and otherwise sets
\* the breaker to half_open with success counter 0 and returns true.  The
\* open->half_open change happens only in such a query (is_agent_healthy or
\* can_retry), never when only time passes.
Elapsed(a) == now - circuit_breakers[a].last_failure_time

C6_QueryResult ==
    \A a \in Agents :
        LET r == is_agent_healthy(circuit_breakers, a, reset_timeout, now)
        IN /\ StateOf(circuit_breakers, a) \in {"none", CLOSED, HALF_OPEN}
                 => r.ret = TRUE /\ r.cbs = circuit_breakers
           /\ (StateOf(circuit_breakers, a) = OPEN /\ Elapsed(a) <= reset_timeout)
                 => r.ret = FALSE /\ r.cbs = circuit_breakers
           /\ (StateOf(circuit_breakers, a) = OPEN /\ Elapsed(a) > reset_timeout)
                 => /\ r.ret = TRUE
                    /\ r.cbs = [circuit_breakers EXCEPT
                                   ![a].state = HALF_OPEN,
                                   ![a].success_count_since_open = 0]

C6_HalfOpenOnlyByQuery ==
    \A a \in Agents :
        (StateOf(circuit_breakers, a) = OPEN
            /\ StateOf(circuit_breakers', a) = HALF_OPEN)
        => /\ Elapsed(a) > reset_timeout
           /\ UNCHANGED <<now, failures, failures_file, recovery_strategies, run,
                          clean_run>>
           /\ circuit_breakers' =
                 [circuit_breakers EXCEPT ![a].state = HALF_OPEN,
                                          ![a].success_count_since_open = 0]

C6_IsHealthy == [](C6_QueryResult) /\ [][C6_HalfOpenOnlyByQuery]_vars

\* an open breaker whose last failure was registered while it was open has
\* been flipped by a query
C6_Witness ==
    \E a \in DOMAIN circuit_breakers :
        /\ circuit_breakers[a].state = HALF_OPEN
        /\ circuit_breakers[a].success_count_since_open = 0
        /\ circuit_breakers[a].failure_count > failure_threshold
        /\ now - circuit_breakers[a].last_failure_time > reset_timeout

\* C7: while half_open, record_success increments the success counter; the
\* call that brings the number of successes since half_open was entered to 3
\* closes the breaker with failure_count 0 and success counter 0, and with
\* fewer successes the breaker is still half_open.
C7_CountsSuccesses ==
    \A a \in DOMAIN circuit_breakers :
        circuit_breakers[a].state = HALF_OPEN =>
            /\ circuit_breakers[a].success_count_since_open = half_open_successes[a]
            /\ half_open_successes[a] < SuccessThreshold

C7_NextSuccess ==
    \A a \in DOMAIN circuit_breakers :
        circuit_breakers[a].state = HALF_OPEN =>
            LET after == record_success(circuit_breakers, a)[a]
            IN IF half_open_successes[a] + 1 = SuccessThreshold
               THEN /\ after.state = CLOSED
                    /\ after.failure_count = 0
                    /\ after.success_count_since_open = 0
               ELSE /\ after.state = HALF_OPEN
                    /\ after.success_count_since_open =
                          circuit_breakers[a].success_count_since_open + 1

C7_HalfOpenToClosed == C7_CountsSuccesses /\ C7_NextSuccess

\* two successes counted while half_open, with failures registered meanwhile
C7_Witness ==
    \E a \in DOMAIN circuit_breakers :
        /\ circuit_breakers[a].state = HALF_OPEN
        /\ circuit_breakers[a].success_count_since_open = SuccessThreshold - 1
        /\ circuit_breakers[a].failure_count > failure_threshold

\* C8: a closed breaker opens only at a register_failure that makes the run
\* of register_failure calls with no record_success between them reach
\* failure_threshold.
C8_OpensOnlyOnConsecutiveFailures ==
    [][\A a \in Agents :
          (StateOf(circuit_breakers, a) \in {"none", CLOSED}
             /\ StateOf(circuit_breakers', a) = OPEN)
          => (FailureRegistered(a) /\ run'[a] >= failure_threshold)]_vars

\* n register_failure calls for agent_id, one after the other
RECURSIVE FailuresRegistered(_, _, _)
FailuresRegistered(cbs, agent_id, n) ==
    IF n = 0 THEN cbs
    ELSE register_failure(FailuresRegistered(cbs, agent_id, n - 1), agent_id,
                          failure_threshold, now)

\* C37: a half_open breaker goes back to open: when failures keep being
\* registered for the agent with no record_success, the breaker is open at
\* the latest once failure_threshold further failures have been registered,
\* and is_agent_healthy then returns false again.
C37_HalfOpenReopens ==
    \A a \in DOMAIN circuit_breakers :
        circuit_breakers[a].state = HALF_OPEN =>
            LET after == FailuresRegistered(circuit_breakers, a, failure_threshold)
            IN /\ after[a].state = OPEN
               /\ ~is_agent_healthy(after, a, reset_timeout, now).ret

\* C38: with failure_threshold >= 1, in every state reached through
\* register_failure, record_success, is_agent_healthy, can_retry and
\* attempt_recovery every breaker has failure_count >= 0, a closed breaker
\* has failure_count < failure_threshold, an open breaker has failure_count
\* >= failure_threshold, and success_count_since_open is 0 whenever the
\* breaker is closed or open.
C38_BreakerInvariant ==
    \A a \in DOMAIN circuit_breakers :
        LET cb == circuit_breakers[a]
        IN /\ cb.failure_count >= 0
           /\ cb.state = CLOSED => cb.failure_count < failure_threshold
           /\ cb.state = OPEN => cb.failure_count >= failure_threshold
           /\ cb.state \in {CLOSED, OPEN} => cb.success_count_since_open = 0

\* one breaker open above the threshold, the other closed again after a
\* half_open phase and with a failure registered since
C38_Witness ==
    /\ failure_threshold = 2
    /\ DOMAIN circuit_breakers = Agents
    /\ \E a, b \in Agents :
          /\ circuit_breakers[a].state = OPEN
          /\ circuit_breakers[a].failure_count > failure_threshold
          /\ circuit_breakers[b].state = CLOSED
          /\ circuit_breakers[b].failure_count = 1

\* C32: a new FaultRecovery built over the same store has, for every agent,
\* the same breaker state and failure count as the one before it; an agent
\* whose breaker was open is still reported unhealthy by is_agent_healthy
\* right after the restart.
C32_RestartStep ==
    FrRestart =>
        \A a \in Agents :
            /\ Breaker(circuit_breakers', a).state
                  = Breaker(circuit_breakers, a).state
            /\ Breaker(circuit_breakers', a).failure_count
                  = Breaker(circuit_breakers, a).failure_count
            /\ is_agent_healthy(circuit_breakers', a, reset_timeout, now).ret
                  = is_agent_healthy(circuit_breakers, a, reset_timeout, now).ret

C32_RestartRoundTrip == [][C32_RestartStep]_vars

(***************************************************************************)
(*                          State Synchronizer                             *)
(***************************************************************************)

\* json.dumps(value, sort_keys=True, default=str) of None or of a str
JsonDumps(value) == IF value = None THEN "null" ELSE "\"" \o value \o "\""

\* json.loads of a text JsonDumps wrote
JsonLoads(text) ==
    IF text = "null" THEN None
    ELSE CHOOSE v \in Values : JsonDumps(v) = text

\* hashlib.sha256(text.encode()).hexdigest(): one digest per text
Sha256(text) == "sha256:" \o text

\* _compute_checksum (lines 329-341)
compute_checksum(value) == Sha256(JsonDumps(value))

\* StateVersion(key=key) with the dataclass defaults (lines 33-42)
StateVersion(key) ==
    [key |-> key, current_version |-> 0, modified_by |-> "",
     value |-> None, checksum |-> ""]

\* dict.get(key): None when the key is absent
DictGet(dict, key) == IF key \in DOMAIN dict THEN dict[key] ELSE None

\* dict[key] = value
DictSet(dict, key, value) == (key :> value) @@ dict

\* the text json.dump writes for a StateChange / a StateVersion
ChangeJson(change) ==
    [change EXCEPT !.old_value = JsonDumps(@), !.new_value = JsonDumps(@)]

VersionJson(version_info) == [version_info EXCEPT !.value = JsonDumps(@)]

\* the synchronizer object: its fields and its three files
Self ==
    [agent_id |-> SelfId, local_state |-> local_state, state_versions |-> state_versions,
     changes |-> changes, replicas |-> replicas, uuid_next |-> uuid_next,
     state_file |-> state_file, versions_file |-> versions_file,
     changes_file |-> changes_file]

\* set_state that starts from a new StateVersion on every write
set_state_fresh_version(o, key, value) ==
    LET change_id == o.uuid_next
        old_value == DictGet(o.local_state, key)
        versions0 == DictSet(o.state_versions, key, StateVersion(key))
        version_info == [versions0[key] EXCEPT
                            !.current_version = @ + 1,
                            !.modified_by = o.agent_id,
                            !.value = value,
                            !.checksum = compute_checksum(value)]
        versions1 == [versions0 EXCEPT ![key] = version_info]
        change == [change_id |-> change_id,
                   agent_id |-> o.agent_id,
                   version |-> version_info.current_version,
                   key |-> key,
                   old_value |-> old_value,
                   new_value |-> value,
                   propagated |-> FALSE,
                   replicas |-> <<>>]
        state1 == DictSet(o.local_state, key, value)
    IN [o EXCEPT !.uuid_next = @ + 1,
                 !.state_versions = versions1,
                 !.changes = Append(@, change),
                 !.local_state = state1,
                 !.state_file = [k \in DOMAIN state1 |-> JsonDumps(state1[k])],
                 !.changes_file = Append(@, ChangeJson(change)),
                 !.versions_file =
                     [k \in DOMAIN versions1 |-> VersionJson(versions1[k])]]

(***************************************************************************)
(* set_state (lines 76-121), with _save_state, _save_change, _save_versions*)
(***************************************************************************)
set_state(o, key, value) ==
    LET change_id == o.uuid_next
        old_value == DictGet(o.local_state, key)
        versions0 == IF key \in DOMAIN o.state_versions THEN o.state_versions
                     ELSE DictSet(o.state_versions, key, StateVersion(key))
        version_info == [versions0[key] EXCEPT
                            !.current_version = @ + 1,
                            !.modified_by = o.agent_id,
                            !.value = value,
                            !.checksum = compute_checksum(value)]
        versions1 == [versions0 EXCEPT ![key] = version_info]
        change == [change_id |-> change_id,
                   agent_id |-> o.agent_id,
                   version |-> version_info.current_version,
                   key |-> key,
                   old_value |-> old_value,
                   new_value |-> value,
                   propagated |-> FALSE,
                   replicas |-> <<>>]
        state1 == DictSet(o.local_state, key, value)
    IN [o EXCEPT !.uuid_next = @ + 1,
                 !.state_versions = versions1,
                 !.changes = Append(@, change),
                 !.local_state = state1,
                 !.state_file = [k \in DOMAIN state1 |-> JsonDumps(state1[k])],
                 !.changes_file = Append(@, ChangeJson(change)),
                 !.versions_file =
                     [k \in DOMAIN versions1 |-> VersionJson(versions1[k])]]

\* get_state (lines 123-132)
get_state(o, key) == DictGet(o.local_state, key)

\* sync_state that tracks the replica before it tests the version
sync_state_tracks_first(o, key, value, version, source_agent_id) ==
    LET replicas0 == IF source_agent_id \in DOMAIN o.replicas THEN o.replicas
                     ELSE DictSet(o.replicas, source_agent_id, <<>>)
        replicas1 == [replicas0 EXCEPT ![source_agent_id] = DictSet(@, key, value)]
        o0 == [o EXCEPT !.replicas = replicas1]
    IN IF key \in DOMAIN o.state_versions
          /\ version <= o.state_versions[key].current_version
       THEN [ret |-> FALSE, obj |-> o0]
       ELSE [ret |-> TRUE, obj |-> set_state(o0, key, value)]

\* sync_state without the version test of lines 157-163
sync_state_unchecked(o, key, value, version, source_agent_id) ==
    LET o1 == set_state(o, key, value)
        replicas0 == IF source_agent_id \in DOMAIN o1.replicas THEN o1.replicas
                     ELSE DictSet(o1.replicas, source_agent_id, <<>>)
        replicas1 == [replicas0 EXCEPT ![source_agent_id] = DictSet(@, key, value)]
    IN [ret |-> TRUE, obj |-> [o1 EXCEPT !.replicas = replicas1]]

(***************************************************************************)
(* sync_state (lines 142-174)                                              *)
(***************************************************************************)
sync_state(o, key, value, version, source_agent_id) ==
    IF key \in DOMAIN o.state_versions
       /\ version <= o.state_versions[key].current_version
    THEN [ret |-> FALSE, obj |-> o]
    ELSE LET o1 == set_state(o, key, value)
             replicas0 == IF source_agent_id \in DOMAIN o1.replicas THEN o1.replicas
                          ELSE DictSet(o1.replicas, source_agent_id, <<>>)
             replicas1 == [replicas0 EXCEPT ![source_agent_id] = DictSet(@, key, value)]
         IN [ret |-> TRUE, obj |-> [o1 EXCEPT !.replicas = replicas1]]

(***************************************************************************)
(* mark_propagated (lines 176-193)                                         *)
(***************************************************************************)
mark_propagated(o, change_id, agent_ids) ==
    LET found == {i \in 1..Len(o.changes) : o.changes[i].change_id = change_id}
    IN IF found = {}
       THEN [ret |-> FALSE, obj |-> o]
       ELSE [ret |-> TRUE,
             obj |-> [o EXCEPT !.changes =
                        [i \in 1..Len(o.changes) |->
                            IF i \in found
                            THEN [o.changes[i] EXCEPT !.propagated = TRUE,
                                                      !.replicas = agent_ids]
                            ELSE o.changes[i]]]]

\* detect_conflicts that compares the replica value itself, not its
\* checksum, with the local checksum
detect_conflicts_unhashed(o) ==
    {[key |-> key,
      local_version |-> o.state_versions[key].current_version,
      local_value |-> DictGet(o.local_state, key),
      replica_agent |-> agent_id,
      replica_value |-> o.replicas[agent_id][key]] :
        <<key, agent_id>> \in
            {p \in (DOMAIN o.state_versions) \X (DOMAIN o.replicas) :
                /\ p[1] \in DOMAIN o.replicas[p[2]]
                /\ o.replicas[p[2]][p[1]] # o.state_versions[p[1]].checksum}}

(***************************************************************************)
(* detect_conflicts (lines 282-307), as the set of the returned entries    *)
(***************************************************************************)
detect_conflicts(o) ==
    {[key |-> key,
      local_version |-> o.state_versions[key].current_version,
      local_value |-> DictGet(o.local_state, key),
      replica_agent |-> agent_id,
      replica_value |-> o.replicas[agent_id][key]] :
        <<key, agent_id>> \in
            {p \in (DOMAIN o.state_versions) \X (DOMAIN o.replicas) :
                /\ p[1] \in DOMAIN o.replicas[p[2]]
                /\ compute_checksum(o.replicas[p[2]][p[1]])
                       # o.state_versions[p[1]].checksum}}

\* resolve_conflict (lines 309-317)
resolve_conflict(o, key, value) == set_state(o, key, value)

\* _load_state (lines 368-377)
load_state(o) ==
    [o EXCEPT !.local_state =
        [k \in DOMAIN o.state_file |-> JsonLoads(o.state_file[k])]]

\* a loader that leaves the version table empty
load_versions_none(o) == [o EXCEPT !.state_versions = <<>>]

\* _load_versions (lines 379-390)
load_versions(o) ==
    [o EXCEPT !.state_versions =
        [k \in DOMAIN o.versions_file |->
            [o.versions_file[k] EXCEPT !.value = JsonLoads(@)]]]

\* _load_changes (lines 392-407)
load_changes(o) ==
    [o EXCEPT !.changes =
        [i \in DOMAIN o.changes_file |->
            [o.changes_file[i] EXCEPT !.old_value = JsonLoads(@),
                                      !.new_value = JsonLoads(@)]]]

\* StateSync(agent_id, data_dir) over the files of o (__init__, lines 47-74)
new_state_sync(o) ==
    load_changes(load_versions(load_state(
        [o EXCEPT !.local_state = <<>>, !.state_versions = <<>>,
                  !.changes = <<>>, !.replicas = <<>>])))

(***************************************************************************)
(* Actions of StateSync                                                    *)
(***************************************************************************)
SsCall(op, key, value, version, source, ret) ==
    [op |-> op, key |-> key, value |-> value, version |-> version,
     source |-> source, ret |-> ret]

NoWrite == SsCall("none", "", None, 0, "", FALSE)

SsInit ==
    /\ local_state = <<>>
    /\ state_versions = <<>>
    /\ changes = <<>>
    /\ replicas = <<>>
    /\ uuid_next = 1
    /\ state_file = <<>>
    /\ versions_file = <<>>
    /\ changes_file = <<>>
    /\ ss_last = NoWrite
    /\ accepted_version = [k \in Keys |-> {}]

\* assign every field of the object
Becomes(o) ==
    /\ local_state' = o.local_state
    /\ state_versions' = o.state_versions
    /\ changes' = o.changes
    /\ replicas' = o.replicas
    /\ uuid_next' = o.uuid_next
    /\ state_file' = o.state_file
    /\ versions_file' = o.versions_file
    /\ changes_file' = o.changes_file

SetState(key, value) ==
    /\ UNCHANGED <<svcVars, frVars, rcVars, svcVars>>
    /\ Len(changes) < MaxChanges
    /\ Becomes(set_state(Self, key, value))
    /\ ss_last' = SsCall("set_state", key, value, 0, "", TRUE)
    /\ UNCHANGED accepted_version

GetState(key) ==
    /\ UNCHANGED <<svcVars, frVars, rcVars, svcVars>>
    /\ get_state(Self, key) \in Values \cup {None}
    /\ ss_last' = NoWrite
    /\ UNCHANGED <<local_state, state_versions, changes, replicas, uuid_next,
                   state_file, versions_file, changes_file, accepted_version>>

SyncState(key, value, version, source_agent_id) ==
    /\ UNCHANGED <<svcVars, frVars, rcVars, svcVars>>
    /\ LET r == sync_state(Self, key, value, version, source_agent_id)
       IN /\ r.ret => Len(changes) < MaxChanges
          /\ Becomes(r.obj)
          /\ ss_last' = IF r.ret
                         THEN SsCall("sync_state", key, value, version,
                                     source_agent_id, TRUE)
                         ELSE SsCall("sync_state", "", None, 0, "", FALSE)
          /\ accepted_version' =
                IF r.ret
                THEN [accepted_version EXCEPT ![key] =
                        IF \E v \in @ : v >= version THEN @ ELSE {version}]
                ELSE accepted_version

MarkPropagated(change_id, agent_ids) ==
    /\ UNCHANGED <<svcVars, frVars, rcVars, svcVars>>
    /\ LET r == mark_propagated(Self, change_id, agent_ids)
       IN /\ Becomes(r.obj)
          /\ ss_last' = NoWrite
    /\ UNCHANGED accepted_version

DetectConflicts ==
    /\ UNCHANGED <<svcVars, frVars, rcVars, svcVars>>
    /\ Cardinality(detect_conflicts(Self)) <= Cardinality(Keys \X Agents)
    /\ ss_last' = SsCall("detect_conflicts", "", None, 0, "", TRUE)
    /\ UNCHANGED <<local_state, state_versions, changes, replicas, uuid_next,
                   state_file, versions_file, changes_file, accepted_version>>

ResolveConflict(key, value) ==
    /\ UNCHANGED <<svcVars, frVars, rcVars, svcVars>>
    /\ Len(changes) < MaxChanges
    /\ Becomes(resolve_conflict(Self, key, value))
    /\ ss_last' = SsCall("resolve_conflict", key, value, 0, "", TRUE)
    /\ UNCHANGED accepted_version

\* a new StateSync with the same agent id is built over the same directory
SsRestart ==
    /\ UNCHANGED <<svcVars, frVars, rcVars, svcVars>>
    /\ Becomes(new_state_sync(Self))
    /\ ss_last' = SsCall("restart", "", None, 0, "", TRUE)
    /\ UNCHANGED accepted_version

\* StateSync(WriterId) right after __init__ (lines 48-74), no files yet
WriterId == "agent1"

NewWriter ==
    [agent_id |-> WriterId, local_state |-> <<>>, state_versions |-> <<>>,
     changes |-> <<>>, replicas |-> <<>>, uuid_next |-> 1,
     state_file |-> <<>>, versions_file |-> <<>>, changes_file |-> <<>>]

WrInit == writer = NewWriter

\* the writer calls set_state
WriterSet(key, value) ==
    /\ UNCHANGED <<frVars, ssVars, rcVars, stVars, rpcVars, lnVars, anVars, lbVars>>
    /\ Len(writer.changes) < MaxChanges
    /\ writer' = set_state(writer, key, value)

\* the highest version of key the reader accepted from the writer
Delivered(key) ==
    IF accepted_version[key] = {} THEN 0
    ELSE CHOOSE v \in accepted_version[key] : TRUE

\* the reader is handed the writer's i-th update: the next one for its key
\* or one it was handed before
Deliver(i) ==
    /\ i \in DOMAIN writer.changes
    /\ writer.changes[i].version <= Delivered(writer.changes[i].key) + 1
    /\ SyncState(writer.changes[i].key, writer.changes[i].new_value,
                 writer.changes[i].version, writer.agent_id)

ReplicaNext ==
    \/ \E k \in Keys, v \in Values : WriterSet(k, v)
    \/ \E i \in 1..MaxChanges : Deliver(i)
    \/ \E k \in Keys : GetState(k)

\* the agent_ids list passed to mark_propagated
PropagatedTo == <<"agent1", "agent2">>

\* the change ids passed to mark_propagated: the first change and an unknown id
ChangeIds == {1, MaxChanges + 1}

SyncNext ==
    \/ \E k \in Keys, v \in Values : SetState(k, v)
    \/ \E k \in Keys : GetState(k)
    \/ \E k \in Keys, v \in Values, n \in Versions, a \in Agents :
          SyncState(k, v, n, a)
    \/ \E id \in ChangeIds : MarkPropagated(id, PropagatedTo)
    \/ DetectConflicts
    \/ \E k \in Keys, v \in Values : ResolveConflict(k, v)

\* a synchronizer that is written only through sync_state
PeerSyncNext ==
    \/ \E k \in Keys, v \in Values, n \in Versions, a \in Agents :
          SyncState(k, v, n, a)
    \/ \E k \in Keys : GetState(k)
    \/ DetectConflicts

\* the calls that write a value or a version, and the restart
SyncRestartNext ==
    \/ \E k \in Keys, v \in Values : SetState(k, v)
    \/ \E k \in Keys, v \in Values, n \in Versions, a \in Agents :
          SyncState(k, v, n, a)
    \/ \E k \in Keys, v \in Values : ResolveConflict(k, v)
    \/ SsRestart


(***************************************************************************)
(* Properties of the State Synchronizer                                    *)
(***************************************************************************)
\* get_version(key).current_version, 0 for a key that was never written
LocalVersion(versions, key) ==
    IF key \in DOMAIN versions THEN versions[key].current_version ELSE 0

\* the step was a sync_state call that returned false
SyncRejected == ss_last'.op = "sync_state" /\ ss_last'.ret = FALSE

\* the step was a sync_state call for key that returned true
SyncAccepted(key) ==
    ss_last'.op = "sync_state" /\ ss_last'.ret /\ ss_last'.key = key

\* the step wrote key: set_state, resolve_conflict or an accepted sync_state
Wrote(key) ==
    /\ ss_last'.key = key
    /\ \/ ss_last'.op \in {"set_state", "resolve_conflict"}
       \/ ss_last'.op = "sync_state" /\ ss_last'.ret

\* C2: sync_state with a version less than or equal to the current version
\* the synchronizer holds for the key returns false and changes nothing: the
\* value map, every version and checksum, the ledger and the replica map.
\* In every reachable state each such call returns false and gives back the
\* object as it was, and a step that is a rejected sync_state changes nothing.
C2_StaleCall ==
    \A k \in DOMAIN state_versions, v \in Values, n \in Versions, a \in Agents :
        n <= state_versions[k].current_version
            => sync_state(Self, k, v, n, a) = [ret |-> FALSE, obj |-> Self]

C2_RejectedStep ==
    SyncRejected
        => UNCHANGED <<local_state, state_versions, changes, replicas,
                       state_file, versions_file, changes_file>>

C2_StaleSyncIsNoOp == [](C2_StaleCall) /\ [][C2_RejectedStep]_vars

C2_Witness ==
    /\ ss_last.op = "sync_state"
    /\ ss_last.ret = FALSE
    /\ \E k \in DOMAIN state_versions : state_versions[k].current_version = 2
    /\ Len(changes) = 2
    /\ replicas # <<>>

\* C3: the current version of a key never decreases; a step that writes the
\* key (set_state, accepted sync_state, resolve_conflict) raises it by exactly
\* 1, the first write giving 1, and every other step leaves it as it is.
C3_VersionStep ==
    \A k \in Keys :
        LET old == LocalVersion(state_versions, k)
            new == LocalVersion(state_versions', k)
        IN /\ new >= old
           /\ Wrote(k) => new = old + 1
           /\ ~Wrote(k) => new = old

C3_VersionsGrowByOne == [][C3_VersionStep]_vars

C3_Witness ==
    \E k \in DOMAIN state_versions :
        /\ state_versions[k].current_version = 2
        /\ ss_last.op = "sync_state"
        /\ ss_last.key = k
        /\ ss_last.ret
        /\ changes[1].key = k
        /\ changes[1].agent_id = SelfId
        /\ changes[1].version = 1

\* C4: once a sync_state for a key was accepted with version v, every later
\* sync_state for that key with a version v' <= v returns false and leaves the
\* value unchanged: no step is an accepted sync_state whose version is at most
\* a version accepted for the key before.
C4_RejectsStaleAfterAcceptedSync ==
    [][\A k \in Keys :
          ~(/\ SyncAccepted(k)
            /\ \E v \in accepted_version[k] : ss_last'.version <= v)]_vars

\* C9: sync_state returns true if and only if version is greater than the
\* version known for the key, a key never written counting as version 0; when
\* it returns true, get_state(key) is the value and the replica map holds the
\* value for (source, key).
C9_NewerIsAccepted ==
    \A k \in Keys, v \in Values, n \in Versions, a \in Agents :
        n > LocalVersion(state_versions, k) => sync_state(Self, k, v, n, a).ret

C9_AcceptedStep ==
    \A k \in Keys :
        SyncAccepted(k) =>
            /\ ss_last'.version > LocalVersion(state_versions, k)
            /\ get_state([Self EXCEPT !.local_state = local_state'], k)
                  = ss_last'.value
            /\ ss_last'.source \in DOMAIN replicas'
            /\ DictGet(replicas'[ss_last'.source], k) = ss_last'.value

C9_AcceptedIffNewer == [](C9_NewerIsAccepted) /\ [][C9_AcceptedStep]_vars

\* the replica agent tracks a value for key
Tracks(agent_id, key) ==
    agent_id \in DOMAIN replicas /\ key \in DOMAIN replicas[agent_id]

\* the checksum of the local value of key differs from the checksum of the
\* value the replica agent tracks for it
Mismatch(agent_id, key) ==
    /\ Tracks(agent_id, key)
    /\ compute_checksum(replicas[agent_id][key])
          # compute_checksum(get_state(Self, key))

\* C28: detect_conflicts returns an entry for (key, replica agent) exactly
\* when that replica tracks a value for the key whose checksum differs from
\* the local checksum: at least one entry for every mismatching pair, none
\* for a matching pair, so it is empty when every tracked replica matches;
\* the entry carries the local and the replica value; the call changes no
\* state.
C28_EntriesAreMismatches ==
    /\ \A k \in Keys, a \in Agents :
          (\E e \in detect_conflicts(Self) : e.key = k /\ e.replica_agent = a)
             <=> Mismatch(a, k)
    /\ \A e \in detect_conflicts(Self) :
          /\ e.local_value = get_state(Self, e.key)
          /\ e.replica_value = replicas[e.replica_agent][e.key]
    /\ (\A k \in Keys, a \in Agents : ~Mismatch(a, k))
          => detect_conflicts(Self) = {}

C28_DetectStep ==
    ss_last'.op = "detect_conflicts"
        => UNCHANGED <<local_state, state_versions, changes, replicas,
                       uuid_next, state_file, versions_file, changes_file>>

C28_DetectsExactlyMismatches ==
    []C28_EntriesAreMismatches /\ [][C28_DetectStep]_vars

\* the writer's update of key with the version
Update(key, version) ==
    CHOOSE c \in {writer.changes[i] : i \in DOMAIN writer.changes} :
        c.key = key /\ c.version = version

\* C29: a writer instance and a reader instance: when the writer has done
\* its k-th set_state on a key (version k) and the reader, having accepted
\* the k-1 updates before it, calls sync_state(key, value, k, writer), the
\* call is accepted and the reader's get_state(key) is the writer's value;
\* a replay of an earlier update (version < k) after that is rejected and
\* the reader's value stays the latest one.
C29_NextIsAccepted ==
    \A i \in DOMAIN writer.changes :
        LET c == writer.changes[i]
            r == sync_state(Self, c.key, c.new_value, c.version, writer.agent_id)
        IN c.version = Delivered(c.key) + 1
              => /\ r.ret
                 /\ get_state(r.obj, c.key) = c.new_value

C29_ReplayIsRejected ==
    \A i \in DOMAIN writer.changes :
        LET c == writer.changes[i]
            r == sync_state(Self, c.key, c.new_value, c.version, writer.agent_id)
        IN c.version < Delivered(c.key)
              => /\ ~r.ret
                 /\ get_state(r.obj, c.key) = get_state(Self, c.key)

C29_ReaderHoldsLatest ==
    \A k \in Keys :
        Delivered(k) > 0 => get_state(Self, k) = Update(k, Delivered(k)).new_value

C29_RejectedStep == SyncRejected => UNCHANGED local_state

C29_ReaderFollowsWriter ==
    /\ [](C29_NextIsAccepted /\ C29_ReplayIsRejected /\ C29_ReaderHoldsLatest)
    /\ [][C29_RejectedStep]_vars

C29_Witness ==
    /\ ss_last.op = "sync_state"
    /\ ~ss_last.ret
    /\ \E k \in Keys :
          /\ Delivered(k) = 2
          /\ Update(k, 1).new_value # Update(k, 2).new_value
          /\ get_state(Self, k) = Update(k, 2).new_value

C28_Witness ==
    /\ ss_last.op = "detect_conflicts"
    /\ \E k \in Keys, a, b \in Agents :
          /\ Mismatch(a, k)
          /\ Tracks(b, k) /\ ~Mismatch(b, k)
          /\ Cardinality(detect_conflicts(Self)) = 1

\* the agents an accepted sync_state of key came from
Sources(key) == {a \in Agents : Tracks(a, key)}

\* detect_conflicts returns no entry for key
NoConflict(key) == \A e \in detect_conflicts(Self) : e.key # key

\* C40: when every write to a key reached the synchronizer through accepted
\* sync_state calls, detect_conflicts reports no conflict for that key, also
\* when the accepted calls came from two or more source agents with
\* different values.
C40_NoConflictAfterSyncs == \A k \in Keys : NoConflict(k)

\* C40 as it holds: when every write to a key reached the synchronizer
\* through accepted sync_state calls of one source agent, detect_conflicts
\* reports no conflict for that key.
C40_NoConflictFromOneSource ==
    \A k \in Keys : Cardinality(Sources(k)) <= 1 => NoConflict(k)

\* detect_conflicts was called with a key written twice by one source, with
\* two values, and a key written by two sources
C40_Witness ==
    /\ ss_last.op = "detect_conflicts"
    /\ \E k \in Keys :
          /\ Cardinality(Sources(k)) = 1
          /\ LocalVersion(state_versions, k) = 2
          /\ changes[1].key = k /\ changes[2].key = k
          /\ changes[1].new_value # changes[2].new_value
          /\ NoConflict(k)

\* the synchronizer object of the next state
SelfAfter ==
    [agent_id |-> SelfId, local_state |-> local_state',
     state_versions |-> state_versions', changes |-> changes',
     replicas |-> replicas', uuid_next |-> uuid_next',
     state_file |-> state_file', versions_file |-> versions_file',
     changes_file |-> changes_file']

\* C33: a new synchronizer built with the same agent id over the same store
\* has, for every key, the same value and the same current version as the
\* one before it: a sync_state that was rejected as stale before the restart
\* is rejected after it, and no version decreases across the restart.
C33_RestartStep ==
    ss_last'.op = "restart" =>
        \A k \in Keys :
            /\ get_state(SelfAfter, k) = get_state(Self, k)
            /\ LocalVersion(state_versions', k) = LocalVersion(state_versions, k)
            /\ \A v \in Values, n \in Versions, a \in Agents :
                  sync_state(SelfAfter, k, v, n, a).ret
                     = sync_state(Self, k, v, n, a).ret

IdleFrame ==
    [op |-> "none", value |-> None, version |-> 0, source |-> "",
     change_id |-> 0, old_value |-> None, version_info |-> "none",
     detached |-> StateVersion(RaceKey), read |-> 0, change_version |-> 0,
     ret |-> FALSE]

RcInit ==
    /\ thread_pc = [t \in Threads |-> "idle"]
    /\ thread_frame = [t \in Threads |-> IdleFrame]
    /\ race_base = 0

AllIdle == \A t \in Threads : thread_pc[t] = "idle"

\* the value a thread writes
ThreadValue(t) == IF t = "t1" THEN "a" ELSE "b"

\* the StateVersion object the thread's version_info refers to
VersionInfo(t) ==
    IF thread_frame[t].version_info = "dict" THEN state_versions[RaceKey]
    ELSE thread_frame[t].detached

Goto(t, line) == thread_pc' = [thread_pc EXCEPT ![t] = line]

\* store obj through the thread's version_info reference, f being the
\* thread's frame after the step
StoreVersionInfo(t, obj, f) ==
    IF thread_frame[t].version_info = "dict"
    THEN /\ state_versions' = [state_versions EXCEPT ![RaceKey] = obj]
         /\ thread_frame' = [thread_frame EXCEPT ![t] = f]
    ELSE /\ thread_frame' = [thread_frame EXCEPT ![t] = [f EXCEPT !.detached = obj]]
         /\ UNCHANGED state_versions

\* a thread enters set_state(RaceKey, value) or
\* sync_state(RaceKey, value, version, source)
ThreadCall(t, op, version, source) ==
    /\ thread_pc[t] = "idle"
    /\ thread_frame' = [thread_frame EXCEPT ![t] =
          [IdleFrame EXCEPT !.op = op, !.value = ThreadValue(t),
                            !.version = version, !.source = source]]
    /\ Goto(t, IF op = "sync_state" THEN "L157" ELSE "L88")
    /\ race_base' = IF AllIdle THEN LocalVersion(state_versions, RaceKey)
                    ELSE race_base
    /\ UNCHANGED <<svcVars, frVars, ssVars>>

\* sync_state lines 157-163: the version test
L157(t) ==
    /\ thread_pc[t] = "L157"
    /\ IF RaceKey \in DOMAIN state_versions
          /\ thread_frame[t].version <= state_versions[RaceKey].current_version
       THEN /\ Goto(t, "done")
            /\ thread_frame' = [thread_frame EXCEPT ![t].ret = FALSE]
       ELSE /\ Goto(t, "L88")
            /\ UNCHANGED thread_frame
    /\ UNCHANGED <<svcVars, frVars, ssVars, race_base>>

\* set_state lines 88-89: change_id = uuid4(); old_value = local_state.get(key)
L88(t) ==
    /\ thread_pc[t] = "L88"
    /\ thread_frame' = [thread_frame EXCEPT
                           ![t].change_id = uuid_next,
                           ![t].old_value = DictGet(local_state, RaceKey)]
    /\ uuid_next' = uuid_next + 1
    /\ Goto(t, "L92")
    /\ UNCHANGED <<svcVars, frVars, race_base, local_state, state_versions, changes,
                   replicas, state_file, versions_file, changes_file, ss_last,
                   accepted_version>>

\* line 92: if key not in self.state_versions
L92(t) ==
    /\ thread_pc[t] = "L92"
    /\ Goto(t, IF RaceKey \notin DOMAIN state_versions THEN "L93" ELSE "L95")
    /\ UNCHANGED <<svcVars, frVars, ssVars, thread_frame, race_base>>

\* line 93: self.state_versions[key] = StateVersion(key=key); a thread that
\* holds the object stored before keeps it
L93(t) ==
    /\ thread_pc[t] = "L93"
    /\ state_versions' = DictSet(state_versions, RaceKey, StateVersion(RaceKey))
    /\ thread_frame' =
          [u \in Threads |->
              IF u # t /\ thread_frame[u].version_info = "dict"
              THEN [thread_frame[u] EXCEPT !.version_info = "own",
                                           !.detached = state_versions[RaceKey]]
              ELSE thread_frame[u]]
    /\ Goto(t, "L95")
    /\ UNCHANGED <<svcVars, frVars, race_base, local_state, changes, replicas, uuid_next,
                   state_file, versions_file, changes_file, ss_last,
                   accepted_version>>

\* line 95: version_info = self.state_versions[key]
L95(t) ==
    /\ thread_pc[t] = "L95"
    /\ thread_frame' = [thread_frame EXCEPT ![t].version_info = "dict"]
    /\ Goto(t, "L96")
    /\ UNCHANGED <<svcVars, frVars, ssVars, race_base>>

\* line 96, version_info.current_version += 1: the load
L96(t) ==
    /\ thread_pc[t] = "L96"
    /\ thread_frame' = [thread_frame EXCEPT ![t].read = VersionInfo(t).current_version]
    /\ Goto(t, "L96store")
    /\ UNCHANGED <<svcVars, frVars, ssVars, race_base>>

\* line 96: the store of the incremented value
L96store(t) ==
    /\ thread_pc[t] = "L96store"
    /\ StoreVersionInfo(t,
          [VersionInfo(t) EXCEPT !.current_version = thread_frame[t].read + 1],
          thread_frame[t])
    /\ Goto(t, "L98")
    /\ UNCHANGED <<svcVars, frVars, race_base, local_state, changes, replicas, uuid_next,
                   state_file, versions_file, changes_file, ss_last,
                   accepted_version>>

\* lines 97-100: modified_by, value and checksum
L98(t) ==
    /\ thread_pc[t] = "L98"
    /\ StoreVersionInfo(t,
          [VersionInfo(t) EXCEPT !.modified_by = SelfId,
                                 !.value = thread_frame[t].value,
                                 !.checksum = compute_checksum(thread_frame[t].value)],
          thread_frame[t])
    /\ Goto(t, "L103")
    /\ UNCHANGED <<svcVars, frVars, race_base, local_state, changes, replicas, uuid_next,
                   state_file, versions_file, changes_file, ss_last,
                   accepted_version>>

\* lines 103-111: change = StateChange(..., version=version_info.current_version)
L103(t) ==
    /\ thread_pc[t] = "L103"
    /\ thread_frame' = [thread_frame EXCEPT
                           ![t].change_version = VersionInfo(t).current_version]
    /\ Goto(t, "L113")
    /\ UNCHANGED <<svcVars, frVars, ssVars, race_base>>

ThreadChange(t) ==
    [change_id |-> thread_frame[t].change_id,
     agent_id |-> SelfId,
     version |-> thread_frame[t].change_version,
     key |-> RaceKey,
     old_value |-> thread_frame[t].old_value,
     new_value |-> thread_frame[t].value,
     propagated |-> FALSE,
     replicas |-> <<>>]

\* line 113: self.changes[change_id] = change
L113(t) ==
    /\ thread_pc[t] = "L113"
    /\ changes' = Append(changes, ThreadChange(t))
    /\ Goto(t, "L114")
    /\ UNCHANGED <<svcVars, frVars, thread_frame, race_base, local_state, state_versions,
                   replicas, uuid_next, state_file, versions_file, changes_file,
                   ss_last, accepted_version>>

\* line 114: self.local_state[key] = value
L114(t) ==
    /\ thread_pc[t] = "L114"
    /\ local_state' = DictSet(local_state, RaceKey, thread_frame[t].value)
    /\ Goto(t, "L116")
    /\ UNCHANGED <<svcVars, frVars, thread_frame, race_base, state_versions, changes,
                   replicas, uuid_next, state_file, versions_file, changes_file,
                   ss_last, accepted_version>>

\* lines 116-118: _save_state, _save_change, _save_versions; set_state returns
L116(t) ==
    /\ thread_pc[t] = "L116"
    /\ state_file' = [k \in DOMAIN local_state |-> JsonDumps(local_state[k])]
    /\ changes_file' = Append(changes_file, ChangeJson(ThreadChange(t)))
    /\ versions_file' =
          [k \in DOMAIN state_versions |-> VersionJson(state_versions[k])]
    /\ IF thread_frame[t].op = "sync_state"
       THEN Goto(t, "L169") /\ UNCHANGED thread_frame
       ELSE /\ Goto(t, "done")
            /\ thread_frame' = [thread_frame EXCEPT ![t].ret = TRUE]
    /\ UNCHANGED <<svcVars, frVars, race_base, local_state, state_versions, changes,
                   replicas, uuid_next, ss_last, accepted_version>>

\* sync_state lines 169-174: track the replica, return True
L169(t) ==
    /\ thread_pc[t] = "L169"
    /\ LET source == thread_frame[t].source
           replicas0 == IF source \in DOMAIN replicas THEN replicas
                        ELSE DictSet(replicas, source, <<>>)
       IN replicas' = [replicas0 EXCEPT ![source] =
                          DictSet(@, RaceKey, thread_frame[t].value)]
    /\ thread_frame' = [thread_frame EXCEPT ![t].ret = TRUE]
    /\ Goto(t, "done")
    /\ UNCHANGED <<svcVars, frVars, race_base, local_state, state_versions, changes,
                   uuid_next, state_file, versions_file, changes_file, ss_last,
                   accepted_version>>

\* a write made before either thread is started
WriteBefore(value) == AllIdle /\ SetState(RaceKey, value)

RaceNext ==
    \/ \E v \in Values : WriteBefore(v)
    \/ \E t \in Threads : ThreadCall(t, "set_state", 0, "")
    \/ \E t \in Threads, n \in Versions, a \in Agents :
          ThreadCall(t, "sync_state", n, a)
    \/ \E t \in Threads : L157(t)
    \/ \E t \in Threads : L88(t)
    \/ \E t \in Threads : L92(t)
    \/ \E t \in Threads : L93(t)
    \/ \E t \in Threads : L95(t)
    \/ \E t \in Threads : L96(t)
    \/ \E t \in Threads : L96store(t)
    \/ \E t \in Threads : L98(t)
    \/ \E t \in Threads : L103(t)
    \/ \E t \in Threads : L113(t)
    \/ \E t \in Threads : L114(t)
    \/ \E t \in Threads : L116(t)
    \/ \E t \in Threads : L169(t)

\* the StateChange entry a finished thread appended
ChangeOf(t) ==
    CHOOSE i \in 1..Len(changes) : changes[i].change_id = thread_frame[t].change_id

BothWrote ==
    \A t \in Threads : thread_pc[t] = "done" /\ thread_frame[t].ret

\* C10: when two threads call set_state (or an accepted sync_state) on the
\* same key concurrently, no version increment is lost: their two StateChange
\* entries carry distinct versions and the key ends at its initial version
\* plus 2, whatever the interleaving.
C10_NoLostIncrement ==
    BothWrote =>
        /\ changes[ChangeOf("t1")].version # changes[ChangeOf("t2")].version
        /\ LocalVersion(state_versions, RaceKey) = race_base + 2

(***************************************************************************)
(*                              RPC Server                                 *)
(*                                                                         *)
(* A JSON value is a record [t, v]: its Python type and its content.  A    *)
(* request text is either not JSON or the text of a JSON value; the value  *)
(* is a list or an object with any of the members jsonrpc, method, params, *)
(* id.  A callable of the method table is named by what it does when it    *)
(* is called with arguments it accepts.  time.time() differences are not   *)
(* modelled: execution_time is 0.  clear_history and get_recent_calls are  *)
(* not called.                                                             *)
(***************************************************************************)
JStr(s) == [t |-> "str", v |-> s]
JNull == [t |-> "null", v |-> ""]
JInt(text) == [t |-> "int", v |-> text]
JList == [t |-> "list", v |-> "[1]"]
JDict(v) == [t |-> "dict", v |-> v]
JObject == [t |-> "object", v |-> "set()"]

\* bool(j)
Truthy(j) ==
    ~(\/ j.t = "null"
      \/ j.t \in {"str", "list", "dict"} /\ j.v = ""
      \/ j.t = "int" /\ j.v = "0")

\* hash(j) does not raise TypeError
Hashable(j) == j.t \notin {"list", "dict"}

\* json.dumps(j) does not raise TypeError
Serializable(j) == j.t # "object"

\* a member the object does not have
Absent == [t |-> "absent", v |-> ""]

\* the members of a JSON object, given each member or Absent
Members(jsonrpc, method, params, id) ==
    LET all == [jsonrpc |-> jsonrpc, method |-> method, params |-> params,
                id |-> id]
    IN [k \in {n \in DOMAIN all : all[n] # Absent} |-> all[k]]

\* the text of a JSON value, and a text that is not JSON
JsonText(value) == [wellformed |-> TRUE, value |-> value]
Garbage == [wellformed |-> FALSE, value |-> [t |-> "none", fields |-> <<>>]]

JsonObject(fields) == [t |-> "dict", fields |-> fields]
JsonArray == [t |-> "list", fields |-> <<>>]

\* json.loads (line 120): JSONDecodeError or the value
json_loads(text) == [ok |-> text.wellformed, value |-> text.value]

\* json.dumps of a dict of serializable values (lines 167, 403)
json_dumps(fields) == JsonText(JsonObject(fields))

\* req_dict.get(name): None when the member is absent
MemberGet(fields, name) == IF name \in DOMAIN fields THEN fields[name] ELSE JNull

\* the callables registered in the tests and examples, by behaviour
Handlers ==
    [echo |-> "returns", typo |-> "raises TypeError",
     boom |-> "raises ValueError", opaque |-> "returns a set"]

MethodNames == DOMAIN Handlers

\* self.methods[method](**params) (line 151): every callable takes one
\* optional keyword argument
Invoke(callable, params) ==
    IF params.t # "dict" \/ params.v = "bad"
    THEN [kind |-> "TypeError", value |-> JNull]
    ELSE CASE callable = "returns" -> [kind |-> "return", value |-> JStr("pong")]
           [] callable = "returns a set" -> [kind |-> "return", value |-> JObject]
           [] callable = "raises TypeError" -> [kind |-> "TypeError", value |-> JNull]
           [] OTHER -> [kind |-> "Exception", value |-> JNull]

\* RPCCall (lines 56-66)
RPCCall(request_id, method, timestamp, success, error) ==
    [request_id |-> request_id, method |-> method, agent_id |-> SelfId,
     timestamp |-> timestamp, execution_time |-> 0, success |-> success,
     error |-> error]

\* RPCResponse (lines 34-41); NoError is error=None
NoError == [code |-> 0, message |-> ""]

RPCResponse(result, error, id) ==
    [jsonrpc |-> "2.0", result |-> result, error |-> error, id |-> id]

\* RPCResponse.to_dict (lines 43-53)
to_dict(response) ==
    IF response.error # NoError
    THEN [jsonrpc |-> response.jsonrpc, id |-> response.id,
          error |-> response.error]
    ELSE [jsonrpc |-> response.jsonrpc, id |-> response.id,
          result |-> response.result]

\* _error_response (lines 386-403)
error_response(request_id, code, message) ==
    json_dumps(to_dict(RPCResponse(
        JNull, [code |-> code, message |-> message],
        IF Truthy(request_id) THEN request_id ELSE JStr(""))))

\* self.call_history[request_id] = call, keyed by the method name instead
history_store_by_method(history, request_id, call) ==
    (JStr(call.method) :> call) @@ history

\* self.call_history[request_id] = call (lines 163, 182, 200)
history_store(history, request_id, call) == (request_id :> call) @@ history

\* _save_call (lines 405-411)
save_call(file, call) == Append(file, call)

\* the server object: its fields, its file, uuid4() and the clock
Server ==
    [methods |-> methods, call_history |-> call_history,
     calls_file |-> calls_file, uuid_next |-> rpc_uuid_next, now |-> rpc_now]

\* what a call gives its caller: a returned text or a raised exception
Returned(text, o, dispatched) ==
    [raised |-> "", ret |-> text, obj |-> o, dispatched |-> dispatched]

Raised(exception, o, dispatched) ==
    [raised |-> exception, ret |-> Garbage, obj |-> o, dispatched |-> dispatched]

\* lines 155-164, 173-183, 191-201: record the call and save it
record_call(o, request_id, method, success, error) ==
    LET call == RPCCall(request_id, method, o.now, success, error)
    IN [o EXCEPT !.call_history = history_store(@, request_id, call),
                 !.calls_file = save_call(@, call)]

\* lines 146-167 without the except clauses of lines 169-203
dispatch_unguarded(o, fields, method) ==
    LET params == IF "params" \in DOMAIN fields THEN fields["params"]
                  ELSE JDict("")
        fresh == JStr("uuid" \o ToString(o.uuid_next))
        request_id == IF "id" \in DOMAIN fields THEN fields["id"] ELSE fresh
        o1 == [o EXCEPT !.uuid_next = @ + 1]
        outcome == Invoke(o.methods[method.v], params)
    IN IF outcome.kind # "return"
       THEN Raised(outcome.kind, o1, TRUE)
       ELSE IF ~Hashable(request_id) \/ ~Serializable(outcome.value)
       THEN Raised("TypeError", o1, TRUE)
       ELSE Returned(json_dumps(to_dict(RPCResponse(
                         outcome.value, NoError, request_id))),
                     record_call(o1, request_id, method.v, TRUE, ""), TRUE)

\* lines 146-203: execute the method and answer
dispatch(o, fields, method) ==
    LET params == IF "params" \in DOMAIN fields THEN fields["params"]
                  ELSE JDict("")
        fresh == JStr("uuid" \o ToString(o.uuid_next))
        request_id == IF "id" \in DOMAIN fields THEN fields["id"] ELSE fresh
        o1 == [o EXCEPT !.uuid_next = @ + 1]
        outcome == Invoke(o.methods[method.v], params)
    IN IF ~Hashable(request_id)
       \* line 163, 182 or 200 raises TypeError; after the handler returned
       \* it is caught at line 169 and raised again by line 182
       THEN Raised("TypeError", o1, TRUE)
       ELSE CASE outcome.kind = "return" ->
                   LET o2 == record_call(o1, request_id, method.v, TRUE, "")
                   IN IF Serializable(outcome.value)
                      THEN Returned(json_dumps(to_dict(RPCResponse(
                                        outcome.value, NoError, request_id))),
                                    o2, TRUE)
                      \* json.dumps raises TypeError at line 167
                      ELSE Returned(
                              error_response(request_id, -32602, "Invalid params"),
                              record_call(o2, request_id, method.v, FALSE,
                                          "Invalid params"),
                              TRUE)
              [] outcome.kind = "TypeError" ->
                   Returned(error_response(request_id, -32602, "Invalid params"),
                            record_call(o1, request_id, method.v, FALSE,
                                        "Invalid params"),
                            TRUE)
              [] OTHER ->
                   Returned(error_response(request_id, -32603, "Server error"),
                            record_call(o1, request_id, method.v, FALSE,
                                        "Server error"),
                            TRUE)

\* handle_request (lines 110-203)
handle_request(o, request_data) ==
    LET parsed == json_loads(request_data)
        req_dict == parsed.value
        fields == req_dict.fields
        method == MemberGet(fields, "method")
        id == MemberGet(fields, "id")
    IN IF ~parsed.ok
       THEN Returned(error_response(JNull, -32700, "Parse error"), o, FALSE)
       ELSE IF req_dict.t # "dict"
       THEN Returned(error_response(JNull, -32600,
                                    "Invalid Request: not a dict"), o, FALSE)
       ELSE IF MemberGet(fields, "jsonrpc") # JStr("2.0")
       THEN Returned(error_response(id, -32600,
                                    "Invalid Request: invalid jsonrpc"), o, FALSE)
       ELSE IF ~Truthy(method)
       THEN Returned(error_response(id, -32600,
                                    "Invalid Request: no method"), o, FALSE)
       \* `method not in self.methods` hashes method
       ELSE IF ~Hashable(method)
       THEN Raised("TypeError", o, FALSE)
       ELSE IF method.t # "str" \/ method.v \notin DOMAIN o.methods
       THEN Returned(error_response(id, -32601, "Method not found"), o, FALSE)
       ELSE dispatch(o, fields, method)

\* None where an RPCCall is expected
NoRecord == RPCCall(JNull, "", -1, FALSE, "None")

\* get_call (lines 205-214)
get_call(o, request_id) ==
    IF request_id \in DOMAIN o.call_history
    THEN o.call_history[request_id] ELSE NoRecord

\* get_call_statistics (lines 228-283), without the times
get_call_statistics(o) ==
    LET calls == {o.call_history[id] : id \in DOMAIN o.call_history}
        ids == DOMAIN o.call_history
        successful == {id \in ids : o.call_history[id].success}
        failed == {id \in ids : ~o.call_history[id].success}
        names == {c.method : c \in calls}
    IN [total_calls |-> Cardinality(ids),
        successful_calls |-> Cardinality(successful),
        failed_calls |-> Cardinality(failed),
        methods |->
            [m \in names |->
                [count |-> Cardinality({id \in ids : o.call_history[id].method = m}),
                 successful |->
                    Cardinality({id \in successful : o.call_history[id].method = m}),
                 failed |->
                    Cardinality({id \in failed : o.call_history[id].method = m})]]]

(***************************************************************************)
(* Actions of the RPC server, called by one thread                         *)
(***************************************************************************)
JsonrpcChoices == {Absent, JStr("1.0"), JStr("2.0")}
MethodChoices ==
    {Absent, JStr(""), JList, JStr("nosuch")} \cup {JStr(m) : m \in MethodNames}
ParamsChoices == {Absent, JDict("ok"), JDict("bad"), JList}
IdChoices == {Absent, JNull, JList, JInt("0"), JStr("r1"), JStr("r2")}

\* the request texts handle_request is called with: a text that is not
\* JSON, an array, envelopes without version "2.0" and every envelope with it
RpcRequests ==
    {Garbage, JsonText(JsonArray)}
    \cup {JsonText(JsonObject(Members(j, JStr("echo"), Absent, i))) :
            j \in JsonrpcChoices, i \in IdChoices}
    \cup {JsonText(JsonObject(Members(JStr("2.0"), m, p, i))) :
            m \in MethodChoices, p \in ParamsChoices, i \in IdChoices}

\* the ids a request text carries: none or one
CarriedIds(request_data) ==
    IF request_data.wellformed /\ request_data.value.t = "dict"
       /\ "id" \in DOMAIN request_data.value.fields
    THEN {request_data.value.fields["id"]} ELSE {}

NoRequest == [request |-> Garbage, raised |-> "", ret |-> Garbage]

\* __init__ (lines 72-98) with no calls file, then register_method for table
RpcInitWith(table) ==
    /\ methods = table
    /\ call_history = <<>>
    /\ calls_file = <<>>
    /\ rpc_uuid_next = 1
    /\ rpc_now = 0
    /\ rpc_last = NoRequest
    /\ rpc_handled = 0
    /\ rpc_dispatched = 0
    /\ rpc_ids = {}
    /\ rpc_ids_distinct = TRUE

RpcInit == RpcInitWith(<<>>)

\* register_method (lines 100-108)
RegisterMethod(name) ==
    /\ UNCHANGED <<frVars, ssVars, rcVars, wrVars, stVars, lnVars, anVars, lbVars>>
    /\ methods' = (name :> Handlers[name]) @@ methods
    /\ UNCHANGED <<call_history, calls_file, rpc_uuid_next, rpc_now, rpc_last,
                   rpc_handled, rpc_dispatched, rpc_ids, rpc_ids_distinct>>

HandleRequest(request_data) ==
    /\ UNCHANGED <<frVars, ssVars, rcVars, wrVars, stVars, lnVars, anVars, lbVars>>
    /\ rpc_handled < MaxRequests
    /\ \E r \in {handle_request(Server, request_data)} :
          /\ methods' = r.obj.methods
          /\ call_history' = r.obj.call_history
          /\ calls_file' = r.obj.calls_file
          /\ rpc_uuid_next' = r.obj.uuid_next
          /\ rpc_last' = [request |-> request_data, raised |-> r.raised,
                          ret |-> r.ret]
          /\ rpc_dispatched' = rpc_dispatched + (IF r.dispatched THEN 1 ELSE 0)
    /\ rpc_now' = rpc_now + 1
    /\ rpc_handled' = rpc_handled + 1
    /\ rpc_ids' = rpc_ids \cup CarriedIds(request_data)
    /\ rpc_ids_distinct' =
          (rpc_ids_distinct /\ CarriedIds(request_data) \cap rpc_ids = {})

GetCall(request_id) ==
    /\ UNCHANGED <<frVars, ssVars, rcVars, wrVars, stVars, lnVars, anVars, lbVars>>
    /\ get_call(Server, request_id).agent_id = SelfId
    /\ UNCHANGED rpcVars

GetCallStatistics ==
    /\ UNCHANGED <<frVars, ssVars, rcVars, wrVars, stVars, lnVars, anVars, lbVars>>
    /\ get_call_statistics(Server).total_calls >= 0
    /\ UNCHANGED rpcVars

RpcNext ==
    \/ \E name \in MethodNames : RegisterMethod(name)
    \/ \E request_data \in RpcRequests : HandleRequest(request_data)
    \/ \E id \in IdChoices \ {Absent, JList} : GetCall(id)
    \/ GetCallStatistics

(***************************************************************************)
(* Properties of the RPC server                                            *)
(***************************************************************************)
\* the step is a handle_request call
Handled == rpc_handled' = rpc_handled + 1

\* the error code of a response text, 0 for a result response
ResponseCode(text) ==
    IF "error" \in DOMAIN text.value.fields
    THEN text.value.fields.error.code ELSE 0

\* the outcome the priority list gives a request text
PriorityCode(table, request_data) ==
    LET fields == request_data.value.fields
        method == MemberGet(fields, "method")
        params == IF "params" \in DOMAIN fields THEN fields["params"]
                  ELSE JDict("")
    IN IF ~request_data.wellformed THEN -32700
       ELSE IF \/ request_data.value.t # "dict"
               \/ MemberGet(fields, "jsonrpc") # JStr("2.0")
               \/ method \in {JNull, JStr("")} THEN -32600
       ELSE IF ~(method.t = "str" /\ method.v \in DOMAIN table) THEN -32601
       ELSE LET outcome == Invoke(table[method.v], params)
            IN CASE outcome.kind = "TypeError" -> -32602
                 [] outcome.kind = "Exception" -> -32603
                 [] OTHER -> 0

\* C11: handle_request maps every input to exactly one outcome by priority:
\* unparseable text gives -32700; a value that is not an object, a version
\* other than "2.0" or a missing or empty method gives -32600; a method that
\* is not registered gives -32601; a handler raising TypeError gives -32602;
\* a handler raising another exception gives -32603; otherwise the response
\* is a result carrying the handler's return value.  It never raises.
C11_Step ==
    Handled =>
        LET request_data == rpc_last'.request
            fields == request_data.value.fields
        IN /\ rpc_last'.raised = ""
           /\ ResponseCode(rpc_last'.ret) = PriorityCode(methods, request_data)
           /\ PriorityCode(methods, request_data) = 0 =>
                 rpc_last'.ret.value.fields.result =
                    Invoke(methods[fields["method"].v],
                           IF "params" \in DOMAIN fields THEN fields["params"]
                           ELSE JDict("")).value

C11_PriorityMapping == [][C11_Step]_vars

\* C12: every handle_request call, successful or failed, appends a call
\* record: after any calls with pairwise distinct request ids the call log
\* holds one record per call, also for calls answered -32700, -32600 or
\* -32601.
C12_OneRecordPerCall ==
    rpc_ids_distinct =>
        /\ Cardinality(DOMAIN call_history) = rpc_handled
        /\ Len(calls_file) = rpc_handled

\* C13: the call log is append-only: handling a request never removes or
\* replaces a call record, also when the request carries the id of an earlier
\* one; so total_calls of get_call_statistics equals the number of requests
\* dispatched to a handler so far and equals successful_calls + failed_calls.
C13_Step ==
    /\ \A id \in DOMAIN call_history :
          id \in DOMAIN call_history' /\ call_history'[id] = call_history[id]
    /\ LET stats == get_call_statistics(Server)
       IN /\ stats.total_calls = rpc_dispatched
          /\ stats.total_calls = stats.successful_calls + stats.failed_calls

C13_AppendOnly == [][C13_Step]_vars

\* C30: every response handle_request produces carries exactly one of
\* result and error, and for every request that carries an id the id of the
\* response is that id, for a result and for every error answered after the
\* envelope was parsed.
C30_Step ==
    (Handled /\ rpc_last'.raised = "")
        => LET response == rpc_last'.ret.value.fields
           IN /\ ("result" \in DOMAIN response) # ("error" \in DOMAIN response)
              /\ \A id \in CarriedIds(rpc_last'.request) : response.id = id

C30_EchoesId == [][C30_Step]_vars

(***************************************************************************)
(* The TCP listener of the RPC server (start_listening, stop_listening).   *)
(*                                                                         *)
(* One thread calls start_listening and later stop_listening; the accept   *)
(* loop runs in its own thread and starts one thread per accepted          *)
(* connection.  Each action is one step of one thread, named by the line   *)
(* it is about to run.  A client connects while the socket listens and     *)
(* sends one request line; the methods were registered before the listener *)
(* was started, and the listener is started once.                          *)
(***************************************************************************)
\* the request line connection c sends, by kind
ConnKinds == {"echo", "typo", "boom", "nosuch", "listid"}

ConnRequest(c, kind) ==
    IF kind = "listid"
    THEN JsonText(JsonObject(Members(JStr("2.0"), JStr("echo"), JDict("ok"), JList)))
    ELSE JsonText(JsonObject(Members(JStr("2.0"), JStr(kind), JDict("ok"), JStr(c))))

NoResponse == Garbage

\* a connection nobody opened yet
NewConn ==
    [state |-> "new", request |-> Garbage, response |-> NoResponse,
     resp |-> NoResponse, raised |-> "", calls |-> <<>>, dispatched |-> FALSE,
     faults_before |-> 0, at_stop |-> FALSE]

\* the states of a connection whose handler thread is running
InHandler == {"L331", "L163", "L164", "L332"}

\* the connection handlers that have returned from a raising method handler
FaultsAnswered ==
    Cardinality({c \in Conns : conns[c].state = "done" /\ conns[c].dispatched
                                /\ ResponseCode(conns[c].response) # 0})

LnInit ==
    /\ server_socket = "None"
    /\ listening_thread = "None"
    /\ stop_event_ref = "None"
    /\ srv = "unbound"
    /\ stop_event = FALSE
    /\ accept_pc = "none"
    /\ accept_conn = ""
    /\ caller_pc = "init"
    /\ backlog = <<>>
    /\ conns = [c \in Conns |-> NewConn]
    /\ polls_after_stop = 0
    /\ ln_overlap = FALSE

\* `while not stop_event.is_set()` (line 310), never leaving the loop
loop_continues_forever(event_is_set) == TRUE

\* `while not stop_event.is_set()` (line 310)
loop_continues(event_is_set) == ~event_is_set

\* the response of the except branch of _handle_conn (lines 333-349)
GenericError ==
    json_dumps([jsonrpc |-> "2.0",
                error |-> [code |-> -32603, message |-> "server error"],
                id |-> JStr("")])

\* start_listening (lines 285-364); RuntimeError when already listening
StartListening ==
    /\ UNCHANGED <<frVars, ssVars, rcVars, wrVars, stVars, rpcVars, anVars, lbVars>>
    /\ caller_pc \in {"init", "listening"}
    /\ IF server_socket # "None"
       THEN UNCHANGED lnVars
       ELSE /\ srv' = "listening"
            /\ stop_event' = FALSE
            /\ stop_event_ref' = "event"
            /\ server_socket' = "srv"
            /\ listening_thread' = "t"
            /\ accept_pc' = "L310"
            /\ caller_pc' = "listening"
            /\ UNCHANGED <<accept_conn, backlog, conns, polls_after_stop,
                           ln_overlap>>

\* the parameters of start_listening besides self (line 285)
StartListeningParameters == {"host", "port"}

\* the keyword arguments the callers pass: host and port, and with them framed
StartListeningKeywords ==
    {[host |-> "127.0.0.1", port |-> "0"],
     [host |-> "127.0.0.1", port |-> "0", framed |-> "False"],
     [host |-> "127.0.0.1", port |-> "0", framed |-> "True"]}

NoStartCall == [framed |-> "", raised |-> ""]

StInit == start_call = NoStartCall

\* the call start_listening(**kwargs): a keyword that is no parameter of the
\* def of line 285 raises TypeError before the body runs
StartListeningWith(kwargs) ==
    IF DOMAIN kwargs \subseteq StartListeningParameters
    THEN StartListening
    ELSE /\ UNCHANGED <<frVars, ssVars, rcVars, wrVars, rpcVars, anVars, lbVars>>
         /\ caller_pc \in {"init", "listening"}
         /\ start_call' = [framed |-> kwargs.framed, raised |-> "TypeError"]
         /\ UNCHANGED lnVars

\* stop_listening, lines 368-369: set the event
StopSet ==
    /\ UNCHANGED <<frVars, ssVars, rcVars, wrVars, stVars, rpcVars, anVars, lbVars>>
    /\ caller_pc = "listening"
    /\ stop_event' = (IF stop_event_ref # "None" THEN TRUE ELSE stop_event)
    /\ caller_pc' = "L370"
    /\ conns' = [c \in Conns |->
                    [conns[c] EXCEPT !.at_stop =
                        conns[c].state \in InHandler \cup {"accepted"}]]
    /\ UNCHANGED <<server_socket, listening_thread, stop_event_ref, srv,
                   accept_pc, accept_conn, backlog, polls_after_stop,
                   ln_overlap>>

\* stop_listening, lines 370-377: close the socket, clear the fields
StopClose ==
    /\ UNCHANGED <<frVars, ssVars, rcVars, wrVars, stVars, rpcVars, anVars, lbVars>>
    /\ caller_pc = "L370"
    /\ srv' = (IF server_socket # "None" THEN "closed" ELSE srv)
    /\ server_socket' = "None"
    /\ listening_thread' = "None"
    /\ stop_event_ref' = "None"
    /\ caller_pc' = "stopped"
    /\ UNCHANGED <<stop_event, accept_pc, accept_conn, backlog, conns,
                   polls_after_stop, ln_overlap>>

\* a client connects and sends its request line
Connect(c, kind) ==
    /\ UNCHANGED <<frVars, ssVars, rcVars, wrVars, stVars, rpcVars, anVars, lbVars>>
    /\ srv = "listening"
    /\ conns[c].state = "new"
    /\ conns' = [conns EXCEPT ![c] = [@ EXCEPT !.state = "pending",
                                               !.request = ConnRequest(c, kind)]]
    /\ backlog' = Append(backlog, c)
    /\ UNCHANGED <<server_socket, listening_thread, stop_event_ref, srv,
                   stop_event, accept_pc, accept_conn, caller_pc,
                   polls_after_stop, ln_overlap>>

\* _accept_loop, line 310
L310 ==
    /\ UNCHANGED <<frVars, ssVars, rcVars, wrVars, stVars, rpcVars, anVars, lbVars>>
    /\ accept_pc = "L310"
    /\ accept_pc' = (IF loop_continues(stop_event) THEN "L313" ELSE "exited")
    /\ UNCHANGED <<server_socket, listening_thread, stop_event_ref, srv,
                   stop_event, accept_conn, caller_pc, backlog, conns,
                   polls_after_stop, ln_overlap>>

\* _accept_loop, lines 311-315: accept a connection, or continue after the
\* timeout or after the OSError of a closed socket
L313 ==
    /\ UNCHANGED <<frVars, ssVars, rcVars, wrVars, stVars, rpcVars, anVars, lbVars>>
    /\ accept_pc = "L313"
    /\ polls_after_stop' = polls_after_stop + (IF stop_event THEN 1 ELSE 0)
    /\ IF srv = "listening" /\ backlog # <<>>
       THEN /\ accept_conn' = Head(backlog)
            /\ backlog' = Tail(backlog)
            /\ conns' = [conns EXCEPT ![Head(backlog)] =
                            [@ EXCEPT !.state = "accepted",
                                      !.faults_before = FaultsAnswered]]
            /\ accept_pc' = "L353"
       ELSE /\ accept_pc' = "L310"
            /\ UNCHANGED <<accept_conn, backlog, conns>>
    /\ UNCHANGED <<server_socket, listening_thread, stop_event_ref, srv,
                   stop_event, caller_pc, ln_overlap>>

\* _accept_loop, lines 353-355: start the handler thread
L353 ==
    /\ UNCHANGED <<frVars, ssVars, rcVars, wrVars, stVars, rpcVars, anVars, lbVars>>
    /\ accept_pc = "L353"
    /\ conns' = [conns EXCEPT ![accept_conn] = [@ EXCEPT !.state = "L331"]]
    /\ accept_conn' = ""
    /\ accept_pc' = "L310"
    /\ UNCHANGED <<server_socket, listening_thread, stop_event_ref, srv,
                   stop_event, caller_pc, backlog, polls_after_stop, ln_overlap>>

\* two handler threads are between building a call record and sending
Overlap(cs) == Cardinality({c \in Conns : cs[c].state \in {"L163", "L164"}}) = 2

\* _handle_conn, lines 320-331, and handle_request up to the call of the
\* method (lines 119-152): the response and the call records are built
L331(c) ==
    /\ UNCHANGED <<frVars, ssVars, rcVars, wrVars, stVars, anVars, lbVars>>
    /\ conns[c].state = "L331"
    /\ \E r \in {handle_request(Server, conns[c].request)} :
          /\ conns' = [conns EXCEPT ![c] =
                [@ EXCEPT !.state = IF r.obj.calls_file # calls_file
                                    THEN "L163" ELSE "L332",
                          !.resp = r.ret,
                          !.raised = r.raised,
                          !.dispatched = r.dispatched,
                          !.calls = SubSeq(r.obj.calls_file, Len(calls_file) + 1,
                                           Len(r.obj.calls_file))]]
          /\ rpc_uuid_next' = r.obj.uuid_next
    /\ rpc_now' = rpc_now + 1
    /\ ln_overlap' = (ln_overlap \/ Overlap(conns'))
    /\ UNCHANGED <<methods, call_history, calls_file, rpc_last, rpc_handled,
                   rpc_dispatched, rpc_ids, rpc_ids_distinct>>
    /\ UNCHANGED <<server_socket, listening_thread, stop_event_ref, srv,
                   stop_event, accept_pc, accept_conn, caller_pc, backlog,
                   polls_after_stop>>

\* handle_request, line 163 (182, 200): self.call_history[request_id] = call
L163(c) ==
    /\ UNCHANGED <<frVars, ssVars, rcVars, wrVars, stVars, anVars, lbVars>>
    /\ conns[c].state = "L163"
    /\ call_history' = history_store(call_history,
                                     Head(conns[c].calls).request_id,
                                     Head(conns[c].calls))
    /\ conns' = [conns EXCEPT ![c] = [@ EXCEPT !.state = "L164"]]
    /\ ln_overlap' = (ln_overlap \/ Overlap(conns'))
    /\ UNCHANGED <<methods, calls_file, rpc_uuid_next, rpc_now, rpc_last,
                   rpc_handled, rpc_dispatched, rpc_ids, rpc_ids_distinct>>
    /\ UNCHANGED <<server_socket, listening_thread, stop_event_ref, srv,
                   stop_event, accept_pc, accept_conn, caller_pc, backlog,
                   polls_after_stop>>

\* handle_request, line 164 (183, 201): self._save_call(call)
L164(c) ==
    /\ UNCHANGED <<frVars, ssVars, rcVars, wrVars, stVars, anVars, lbVars>>
    /\ conns[c].state = "L164"
    /\ calls_file' = save_call(calls_file, Head(conns[c].calls))
    /\ conns' = [conns EXCEPT ![c] =
                    [@ EXCEPT !.calls = Tail(@),
                              !.state = IF Tail(conns[c].calls) # <<>>
                                        THEN "L163" ELSE "L332"]]
    /\ UNCHANGED <<methods, call_history, rpc_uuid_next, rpc_now, rpc_last,
                   rpc_handled, rpc_dispatched, rpc_ids, rpc_ids_distinct>>
    /\ UNCHANGED <<server_socket, listening_thread, stop_event_ref, srv,
                   stop_event, accept_pc, accept_conn, caller_pc, backlog,
                   polls_after_stop, ln_overlap>>

\* _handle_conn, line 332: send the response; lines 333-349 when
\* handle_request raised: send the generic error
L332(c) ==
    /\ UNCHANGED <<frVars, ssVars, rcVars, wrVars, stVars, rpcVars, anVars, lbVars>>
    /\ conns[c].state = "L332"
    /\ conns' = [conns EXCEPT ![c] =
                    [@ EXCEPT !.state = "done",
                              !.response = IF conns[c].raised = ""
                                           THEN conns[c].resp
                                           ELSE GenericError]]
    /\ UNCHANGED <<server_socket, listening_thread, stop_event_ref, srv,
                   stop_event, accept_pc, accept_conn, caller_pc, backlog,
                   polls_after_stop, ln_overlap>>

AcceptLoop == L310 \/ L313 \/ L353

HandleConn(c) == L331(c) \/ L163(c) \/ L164(c) \/ L332(c)

ListenNext ==
    \/ StartListening
    \/ StopSet
    \/ StopClose
    \/ \E c \in Conns, kind \in ConnKinds : Connect(c, kind)
    \/ L310
    \/ L313
    \/ L353
    \/ \E c \in Conns : L331(c)
    \/ \E c \in Conns : L163(c)
    \/ \E c \in Conns : L164(c)
    \/ \E c \in Conns : L332(c)

\* the listener with callers that pass keyword arguments
ListenFramedNext ==
    \/ ListenNext
    \/ \E kwargs \in StartListeningKeywords : StartListeningWith(kwargs)

(***************************************************************************)
(* Properties of the listener                                              *)
(***************************************************************************)
\* no accepted connection is still being handled
Finished == \A c \in Conns : conns[c].state \notin InHandler \cup {"accepted"}

RequestId(c) == MemberGet(conns[c].request.value.fields, "id")
RequestMethod(c) == MemberGet(conns[c].request.value.fields, "method").v

\* the connections whose request reached a method and carries a string id
Dispatched ==
    {c \in Conns : conns[c].state = "done" /\ conns[c].dispatched
                    /\ RequestId(c).t = "str"}

\* C14: when several connection handlers run handle_request concurrently for
\* requests with pairwise distinct ids, then under every interleaving, once
\* all handlers have finished, the call history holds exactly one record per
\* dispatched request, none lost and none duplicated, and each connection has
\* received the response to its own request.
C14_OneRecordPerRequest ==
    Finished =>
        /\ \A c \in Dispatched :
              /\ RequestId(c) \in DOMAIN call_history
              /\ call_history[RequestId(c)].request_id = RequestId(c)
              /\ call_history[RequestId(c)].method = RequestMethod(c)
              /\ Cardinality({i \in 1..Len(calls_file) :
                                calls_file[i].request_id = RequestId(c)}) = 1
        /\ Cardinality(DOMAIN call_history) = Cardinality(Dispatched)
        /\ Len(calls_file) = Cardinality(Dispatched)
        /\ \A c \in Conns :
              (conns[c].state = "done" /\ RequestId(c).t = "str") =>
                  /\ conns[c].response
                        = handle_request(Server, conns[c].request).ret
                  /\ conns[c].response.value.fields.id = RequestId(c)

C14_Witness ==
    /\ Finished
    /\ Dispatched = Conns
    /\ ln_overlap

\* C15: after stop_listening the accept loop eventually exits, within one
\* poll cycle of the stop event being set, and accepts no connection after
\* stop_listening has returned; every connection that was accepted still has
\* its handler run to completion and its response written, and
\* stop_listening leaves every handler as it is.
C15_OnePollCycle == polls_after_stop <= 1

C15_NoAcceptAfterStop ==
    caller_pc = "stopped" =>
        \A c \in Conns : conns'[c].state = "accepted" => conns[c].state = "accepted"

C15_NoAbort ==
    caller_pc' # caller_pc =>
        \A c \in Conns : /\ conns'[c].state = conns[c].state
                         /\ conns'[c].response = conns[c].response

C15_StopDrains ==
    /\ [](C15_OnePollCycle)
    /\ [][C15_NoAcceptAfterStop /\ C15_NoAbort]_vars
    /\ stop_event ~> (accept_pc = "exited")
    /\ \A c \in Conns :
          (conns[c].state \in InHandler \cup {"accepted"})
              ~> (conns[c].state = "done" /\ conns[c].response # NoResponse)

C15_Witness ==
    /\ caller_pc = "stopped"
    /\ accept_pc = "exited"
    /\ \E c \in Conns : /\ conns[c].at_stop
                        /\ conns[c].state = "done"
                        /\ conns[c].response # NoResponse

\* C16: a fault inside a method handler becomes a structured error response
\* on the connection of the request, -32602 for a TypeError and -32603 for
\* any other exception, carrying the id of the request, and never stops the
\* listener: the accept loop exits only after the stop event was set, and a
\* connection made while the listener runs is answered, a valid request with
\* its result.
C16_Answered ==
    \A c \in Conns :
        (conns[c].state = "done" /\ RequestId(c).t = "str") =>
            LET reply == conns[c].response.value.fields
            IN /\ reply.id = RequestId(c)
               /\ RequestMethod(c) = "typo" => ResponseCode(conns[c].response) = -32602
               /\ RequestMethod(c) = "boom" => ResponseCode(conns[c].response) = -32603
               /\ RequestMethod(c) = "echo" =>
                     /\ ResponseCode(conns[c].response) = 0
                     /\ reply.result = JStr("pong")

C16_ListenerRuns == accept_pc = "exited" => stop_event

C16_FaultsDoNotStopListener ==
    /\ [](C16_Answered /\ C16_ListenerRuns)
    /\ \A c \in Conns :
          (conns[c].state = "pending")
              ~> (conns[c].state = "done" \/ stop_event)

C16_Witness ==
    /\ ~stop_event
    /\ accept_pc \notin {"none", "exited"}
    /\ \E c1, c2 \in Conns :
          /\ conns[c1].state = "done"
          /\ RequestMethod(c1) \in {"typo", "boom"}
          /\ ResponseCode(conns[c1].response) # 0
          /\ conns[c2].state = "done"
          /\ conns[c2].faults_before >= 1
          /\ RequestMethod(c2) = "echo"
          /\ ResponseCode(conns[c2].response) = 0
          /\ conns[c2].response.value.fields.result = JStr("pong")

\* the step is a start_listening call that passes framed
StartCalled(framed) == start_call' # start_call /\ start_call'.framed = framed

\* the call returned the port of a listening socket and the accept loop runs
StartReturned ==
    /\ start_call'.raised = ""
    /\ srv' = "listening"
    /\ server_socket' # "None"
    /\ accept_pc' # "none"

\* C34: start_listening(host, port, framed=False) returns a bound port
\* greater than 0 and starts a listener with newline framing: each accepted
\* connection is handled by its own unit, which reads one line, passes it to
\* handle_request, writes that response and a newline on the connection and
\* closes it.
C34_StartStep == StartCalled("False") => StartReturned

C34_NewlineListener == [][C34_StartStep]_vars

\* C35: start_listening(host, port, framed=True) starts a listener whose
\* handlers read one message of a 4-byte big-endian length and that many
\* bytes and write the response in the same framing, for every connection of
\* the listener.
C35_StartStep == StartCalled("True") => StartReturned

C35_FramedListener == [][C35_StartStep]_vars

(***************************************************************************)
(*                      Agent registry (AgentNetwork)                      *)
(*                                                                         *)
(* Of an AgentInfo the model keeps agent_id, capabilities, status and      *)
(* last_heartbeat; name, host, port, registered_at and metadata are values *)
(* no method reads.  A list the code returns is kept as the set of its     *)
(* elements.  The topology file is written and never read: it is not       *)
(* modelled.  The clock counts seconds.  reset is not called.              *)
(***************************************************************************)
Capabilities == {"plan"}

\* str(uuid.uuid4()) (line 96)
AgentId(n) == "a" \o ToString(n)

\* the instants the clock shows: the construction, then one heartbeat
\* timeout later and one second after that
Instants == {0, HeartbeatTimeout, HeartbeatTimeout + 1}

\* the ids the methods are called with: every id register_agent can return
\* and one it never returns
AgentIds == {AgentId(n) : n \in 0..MaxAgents}

\* AgentInfo (lines 19-31)
AgentInfo(agent_id, capabilities, t) ==
    [agent_id |-> agent_id, capabilities |-> capabilities, status |-> "active",
     last_heartbeat |-> t]

\* the registry object: its fields, its files, uuid4() and the clock
Network ==
    [agents |-> agents, connections |-> connections,
     heartbeat_timeout |-> heartbeat_timeout, now |-> an_now,
     uuid_next |-> an_uuid_next, network_file |-> network_file]

\* register_agent (lines 76-111)
register_agent(o, capabilities) ==
    LET agent_id == AgentId(o.uuid_next)
        agent == AgentInfo(agent_id, capabilities, o.now)
    IN [ret |-> agent_id,
        obj |-> [o EXCEPT !.uuid_next = @ + 1,
                          !.agents = (agent_id :> agent) @@ @,
                          !.connections = (agent_id :> {}) @@ @,
                          !.network_file = Append(@, agent)]]

\* a dict without one key
DictDel(dict, key) == [k \in (DOMAIN dict) \ {key} |-> dict[k]]

\* deregister_agent that leaves the peer sets of the other agents alone
deregister_agent_keeps_links(o, agent_id) ==
    IF agent_id \notin DOMAIN o.agents
    THEN [ret |-> FALSE, obj |-> o]
    ELSE [ret |-> TRUE,
          obj |-> [o EXCEPT !.agents = DictDel(@, agent_id),
                            !.connections = DictDel(@, agent_id)]]

\* deregister_agent (lines 113-135)
deregister_agent(o, agent_id) ==
    IF agent_id \notin DOMAIN o.agents
    THEN [ret |-> FALSE, obj |-> o]
    ELSE LET connections1 == IF agent_id \in DOMAIN o.connections
                             THEN DictDel(o.connections, agent_id)
                             ELSE o.connections
         IN [ret |-> TRUE,
             obj |-> [o EXCEPT !.agents = DictDel(@, agent_id),
                               !.connections =
                                  [k \in DOMAIN connections1 |->
                                      connections1[k] \ {agent_id}]]]

\* get_agents_by_capability (lines 148-159)
get_agents_by_capability(o, capability) ==
    {id \in DOMAIN o.agents : capability \in o.agents[id].capabilities}

\* _is_heartbeat_healthy (lines 292-306)
is_heartbeat_healthy(o, agent) ==
    LET elapsed == o.now - agent.last_heartbeat
    IN elapsed < o.heartbeat_timeout

\* get_active_agents (lines 161-171)
get_active_agents(o) ==
    {id \in DOMAIN o.agents :
        o.agents[id].status = "active" /\ is_heartbeat_healthy(o, o.agents[id])}

\* heartbeat that leaves the status as it is
heartbeat_keeps_status(o, agent_id) ==
    IF agent_id \notin DOMAIN o.agents
    THEN [ret |-> FALSE, obj |-> o]
    ELSE [ret |-> TRUE,
          obj |-> [o EXCEPT !.agents[agent_id].last_heartbeat = o.now]]

\* heartbeat (lines 173-192)
heartbeat(o, agent_id) ==
    IF agent_id \notin DOMAIN o.agents
    THEN [ret |-> FALSE, obj |-> o]
    ELSE [ret |-> TRUE,
          obj |-> [o EXCEPT !.agents[agent_id] =
                      [@ EXCEPT !.last_heartbeat = o.now,
                                !.status = IF @ # "active" THEN "active" ELSE @]]]

\* connect_agents that adds the link to the first agent only
connect_agents_one_way(o, agent_id_1, agent_id_2) ==
    IF agent_id_1 \notin DOMAIN o.agents \/ agent_id_2 \notin DOMAIN o.agents
    THEN [ret |-> FALSE, obj |-> o]
    ELSE [ret |-> TRUE,
          obj |-> [o EXCEPT !.connections[agent_id_1] = @ \cup {agent_id_2}]]

\* connect_agents (lines 194-216)
connect_agents(o, agent_id_1, agent_id_2) ==
    IF agent_id_1 \notin DOMAIN o.agents \/ agent_id_2 \notin DOMAIN o.agents
    THEN [ret |-> FALSE, obj |-> o]
    ELSE LET c1 == IF agent_id_1 \in DOMAIN o.connections THEN o.connections
                   ELSE (agent_id_1 :> {}) @@ o.connections
             c2 == IF agent_id_2 \in DOMAIN c1 THEN c1
                   ELSE (agent_id_2 :> {}) @@ c1
             c3 == [c2 EXCEPT ![agent_id_1] = @ \cup {agent_id_2}]
             c4 == [c3 EXCEPT ![agent_id_2] = @ \cup {agent_id_1}]
         IN [ret |-> TRUE, obj |-> [o EXCEPT !.connections = c4]]

\* get_peers (lines 218-231)
get_peers(o, agent_id) ==
    IF agent_id \notin DOMAIN o.connections THEN {}
    ELSE {pid \in o.connections[agent_id] : pid \in DOMAIN o.agents}

\* get_topology (lines 233-256)
get_topology(o) ==
    LET agents1 == [id \in DOMAIN o.agents |->
                      IF ~is_heartbeat_healthy(o, o.agents[id])
                         /\ o.agents[id].status = "active"
                      THEN [o.agents[id] EXCEPT !.status = "failed"]
                      ELSE o.agents[id]]
        active == {id \in DOMAIN agents1 : agents1[id].status = "active"}
        failed == {id \in DOMAIN agents1 : agents1[id].status = "failed"}
        topology == [timestamp |-> o.now, agents |-> agents1,
                     connections |-> o.connections,
                     active_agents |-> active, failed_agents |-> failed]
    IN [ret |-> topology,
        obj |-> [o EXCEPT !.agents = agents1]]

\* get_statistics (lines 258-282)
get_statistics(o) ==
    LET t == get_topology(o)
    IN [ret |-> [total_agents |-> Cardinality(DOMAIN t.obj.agents),
                 active_agents |-> Cardinality(t.ret.active_agents),
                 failed_agents |-> Cardinality(t.ret.failed_agents),
                 total_connections |->
                    Sum([id \in DOMAIN t.obj.connections |->
                            Cardinality(t.obj.connections[id])],
                        DOMAIN t.obj.connections),
                 capabilities |->
                    [cap \in UNION {t.obj.agents[id].capabilities :
                                        id \in DOMAIN t.obj.agents} |->
                        Cardinality(get_agents_by_capability(t.obj, cap))]],
        obj |-> t.obj]

\* the loop of lines 340-348 over the first n lines of the agents file
RECURSIVE load_agents_lines(_, _)
load_agents_lines(o, n) ==
    IF n = 0 THEN o
    ELSE LET o1 == load_agents_lines(o, n - 1)
             agent == o.network_file[n]
         IN [o1 EXCEPT !.agents = (agent.agent_id :> agent) @@ @,
                       !.connections = (agent.agent_id :> {}) @@ @]

\* _load_agents (lines 334-350)
load_agents(o) == load_agents_lines(o, Len(o.network_file))

\* __init__ (lines 50-74) over the files of o
new_network(o) ==
    load_agents([o EXCEPT !.agents = <<>>, !.connections = <<>>])

(***************************************************************************)
(* Actions of the agent registry                                           *)
(***************************************************************************)
\* what the last call was and what it returned; of a call that returned
\* False the arguments are not kept
AnCall(op, a, b, ret) ==
    [op |-> op, a |-> IF ret THEN a ELSE "", b |-> IF ret THEN b ELSE "",
     ret |-> ret, status_before |-> "", linked_before |-> {}, active |-> {}]

\* __init__ (lines 50-74) with no agents file
AnInit ==
    /\ agents = <<>>
    /\ connections = <<>>
    /\ heartbeat_timeout = HeartbeatTimeout
    /\ an_now = 0
    /\ an_uuid_next = 1
    /\ network_file = <<>>
    /\ an_last = AnCall("none", "", "", FALSE)

\* assign every field of the registry object
AnBecomes(o) ==
    /\ agents' = o.agents
    /\ connections' = o.connections
    /\ an_uuid_next' = o.uuid_next
    /\ network_file' = o.network_file
    /\ UNCHANGED <<heartbeat_timeout, an_now>>

\* time passes
AnTick ==
    /\ UNCHANGED <<frVars, ssVars, rcVars, wrVars, stVars, rpcVars, lnVars, lbVars>>
    /\ \E t \in Instants : t > an_now /\ an_now' = t
    /\ an_last' = AnCall("none", "", "", FALSE)
    /\ UNCHANGED <<agents, connections, heartbeat_timeout, an_uuid_next,
                   network_file>>

RegisterAgent(capabilities) ==
    /\ UNCHANGED <<frVars, ssVars, rcVars, wrVars, stVars, rpcVars, lnVars, lbVars>>
    /\ an_uuid_next <= MaxAgents
    /\ \E r \in {register_agent(Network, capabilities)} :
          /\ AnBecomes(r.obj)
          /\ an_last' = AnCall("register_agent", r.ret, "", TRUE)

DeregisterAgent(agent_id) ==
    /\ UNCHANGED <<frVars, ssVars, rcVars, wrVars, stVars, rpcVars, lnVars, lbVars>>
    /\ \E r \in {deregister_agent(Network, agent_id)} :
          /\ AnBecomes(r.obj)
          /\ an_last' =
                [AnCall("deregister_agent", agent_id, "", r.ret) EXCEPT
                    !.linked_before = {x \in DOMAIN connections :
                                          agent_id \in connections[x]}]

Heartbeat(agent_id) ==
    /\ UNCHANGED <<frVars, ssVars, rcVars, wrVars, stVars, rpcVars, lnVars, lbVars>>
    /\ \E r \in {heartbeat(Network, agent_id)} :
          /\ AnBecomes(r.obj)
          /\ an_last' =
                [AnCall("heartbeat", agent_id, "", r.ret) EXCEPT
                    !.status_before = IF agent_id \in DOMAIN agents
                                      THEN agents[agent_id].status ELSE ""]

ConnectAgents(agent_id_1, agent_id_2) ==
    /\ UNCHANGED <<frVars, ssVars, rcVars, wrVars, stVars, rpcVars, lnVars, lbVars>>
    /\ \E r \in {connect_agents(Network, agent_id_1, agent_id_2)} :
          /\ AnBecomes(r.obj)
          /\ an_last' = AnCall("connect_agents", agent_id_1, agent_id_2, r.ret)

GetTopology ==
    /\ UNCHANGED <<frVars, ssVars, rcVars, wrVars, stVars, rpcVars, lnVars, lbVars>>
    /\ \E r \in {get_topology(Network)} :
          /\ AnBecomes(r.obj)
          /\ an_last' = [AnCall("get_topology", "", "", TRUE) EXCEPT
                            !.active = r.ret.active_agents]

GetStatistics ==
    /\ UNCHANGED <<frVars, ssVars, rcVars, wrVars, stVars, rpcVars, lnVars, lbVars>>
    /\ \E r \in {get_statistics(Network)} :
          /\ r.ret.total_agents = r.ret.active_agents + r.ret.failed_agents
          /\ AnBecomes(r.obj)
          /\ an_last' = AnCall("get_statistics", "", "", TRUE)

\* get_agents_by_capability, get_active_agents and get_peers: no field changes
AnQuery ==
    /\ UNCHANGED <<frVars, ssVars, rcVars, wrVars, stVars, rpcVars, lnVars, lbVars>>
    /\ \A capability \in Capabilities :
          get_agents_by_capability(Network, capability) \subseteq DOMAIN agents
    /\ get_active_agents(Network) \subseteq DOMAIN agents
    /\ \A agent_id \in AgentIds :
          get_peers(Network, agent_id) \subseteq DOMAIN agents
    /\ an_last' = AnCall("query", "", "", TRUE)
    /\ UNCHANGED <<agents, connections, heartbeat_timeout, an_now, an_uuid_next,
                   network_file>>

\* the capabilities the callers register: every other agent plans
RegisteredCapabilities == IF an_uuid_next % 2 = 1 THEN {"plan"} ELSE {}

NetworkNext ==
    \/ AnTick
    \/ \E caps \in {RegisteredCapabilities} : RegisterAgent(caps)
    \/ \E a \in AgentIds : DeregisterAgent(a)
    \/ \E a \in AgentIds : Heartbeat(a)
    \/ \E a, b \in AgentIds : ConnectAgents(a, b)
    \/ GetTopology
    \/ GetStatistics
    \/ AnQuery

\* a new AgentNetwork is built over the same data directory
AnRestart ==
    /\ UNCHANGED <<frVars, ssVars, rcVars, wrVars, stVars, rpcVars, lnVars, lbVars>>
    /\ \E r \in {new_network(Network)} :
          /\ AnBecomes(r)
          /\ an_last' = AnCall("restart", "", "", TRUE)

NetworkRestartNext ==
    \/ NetworkNext
    \/ AnRestart

(***************************************************************************)
(* Properties of the agent registry                                        *)
(***************************************************************************)
\* the step is a call of op
AnCalled(op) == an_last'.op = op

Registered(id) == id \in DOMAIN agents

\* C17: peer links are symmetric in every reachable state: B is in the peer
\* set of A if and only if A is in the peer set of B.  connect_agents(A, B)
\* with both ids registered returns true and puts each in the other's peer
\* set; with an unknown id it returns false and changes nothing.
C17_Symmetric ==
    \A a \in DOMAIN connections, b \in AgentIds :
        b \in connections[a] => (b \in DOMAIN connections /\ a \in connections[b])

C17_ConnectResult ==
    \A a, b \in AgentIds :
        connect_agents(Network, a, b).ret = (Registered(a) /\ Registered(b))

C17_ConnectStep ==
    AnCalled("connect_agents") =>
        LET a == an_last'.a
            b == an_last'.b
        IN IF an_last'.ret
           THEN /\ Registered(a) /\ Registered(b)
                /\ b \in connections'[a]
                /\ a \in connections'[b]
                /\ get_peers([Network EXCEPT !.connections = connections'], a)
                      = get_peers(Network, a) \cup {b}
                /\ get_peers([Network EXCEPT !.connections = connections'], b)
                      = get_peers(Network, b) \cup {a}
                /\ UNCHANGED agents
           ELSE UNCHANGED <<agents, connections>>

C17_SymmetricPeers ==
    [](C17_Symmetric /\ C17_ConnectResult) /\ [][C17_ConnectStep]_vars

C17_Witness ==
    /\ an_last.op = "connect_agents"
    /\ an_last.ret
    /\ an_last.a # an_last.b
    /\ an_last.b \in connections[an_last.a]
    /\ an_last.a \in connections[an_last.b]
    /\ \E x \in DOMAIN agents : agents[x].status = "failed"

\* C18: deregister_agent of a registered id returns true and removes the
\* record and every peer link that points to it: afterwards no peer set
\* contains the id and the id has no peer set.  deregister_agent of an
\* unknown id returns false and leaves all records and peer sets unchanged.
C18_DeregisterResult ==
    \A id \in AgentIds : deregister_agent(Network, id).ret = Registered(id)

C18_DeregisterStep ==
    AnCalled("deregister_agent") =>
        LET id == an_last'.a
        IN IF an_last'.ret
           THEN /\ Registered(id)
                /\ id \notin DOMAIN agents'
                /\ id \notin DOMAIN connections'
                /\ \A x \in DOMAIN connections' : id \notin connections'[x]
                /\ \A x \in (DOMAIN agents) \ {id} :
                      /\ x \in DOMAIN agents' /\ agents'[x] = agents[x]
                      /\ connections'[x] = connections[x] \ {id}
           ELSE UNCHANGED <<agents, connections>>

C18_DeregisterRemovesLinks ==
    [](C18_DeregisterResult) /\ [][C18_DeregisterStep]_vars

C18_Witness ==
    /\ an_last.op = "deregister_agent"
    /\ an_last.ret
    /\ an_last.linked_before \ {an_last.a} # {}
    /\ an_last.a \notin DOMAIN agents
    /\ \A x \in DOMAIN connections : an_last.a \notin connections[x]

\* C19: get_topology demotes an agent to failed exactly when its status is
\* active and now - last_heartbeat is strictly greater than the heartbeat
\* timeout; an active agent with an elapsed time of at most the timeout stays
\* active.  The demotion happens inside the query, and the returned active
\* list holds exactly the agents that are active after it.
C19_TopologyStep ==
    AnCalled("get_topology") =>
        /\ \A id \in DOMAIN agents :
              agents'[id].status =
                 IF agents[id].status = "active"
                    /\ an_now - agents[id].last_heartbeat > heartbeat_timeout
                 THEN "failed" ELSE agents[id].status
        /\ an_last'.active = {id \in DOMAIN agents' : agents'[id].status = "active"}

C19_DemotesAfterTimeout == [][C19_TopologyStep]_vars

\* C20: only heartbeat re-activates an agent: heartbeat of a registered agent
\* sets last_heartbeat to now, returns true and sets a failed agent back to
\* active; no other call changes an agent from failed to active; heartbeat of
\* an unknown id returns false and changes nothing.
C20_HeartbeatResult ==
    \A id \in AgentIds : heartbeat(Network, id).ret = Registered(id)

C20_HeartbeatStep ==
    AnCalled("heartbeat") =>
        LET id == an_last'.a
        IN IF an_last'.ret
           THEN /\ Registered(id)
                /\ agents'[id].last_heartbeat = an_now
                /\ agents'[id].status = "active"
                /\ \A x \in (DOMAIN agents) \ {id} : agents'[x] = agents[x]
                /\ DOMAIN agents' = DOMAIN agents
                /\ UNCHANGED connections
           ELSE UNCHANGED <<agents, connections>>

C20_OnlyHeartbeat ==
    \A id \in DOMAIN agents :
        (id \in DOMAIN agents' /\ agents[id].status = "failed"
         /\ agents'[id].status = "active")
            => (an_last'.op = "heartbeat" /\ an_last'.a = id)

C20_OnlyHeartbeatReactivates ==
    [](C20_HeartbeatResult) /\ [][C20_HeartbeatStep /\ C20_OnlyHeartbeat]_vars

C20_Witness ==
    /\ an_last.op = "heartbeat"
    /\ an_last.ret
    /\ an_last.status_before = "failed"
    /\ agents[an_last.a].status = "active"
    /\ agents[an_last.a].last_heartbeat = an_now

\* C31: a new registry built over the same store after any sequence of
\* register, deregister and connect calls has the same set of registered
\* agents and the same peer links as the one before it; a deregistered agent
\* does not reappear.
C31_RestartStep ==
    AnCalled("restart") =>
        /\ DOMAIN agents' = DOMAIN agents
        /\ connections' = connections

C31_RestartRoundTrip == [][C31_RestartStep]_vars

(***************************************************************************)
(*                       Load balancer (LoadBalancer)                      *)
(*                                                                         *)
(* A candidate is the dict {"agent_id": id, "name": ...}; the model keeps  *)
(* its agent_id.  Of a TaskAssignment the model keeps agent_id, strategy,  *)
(* actual_completion, execution_time and success; of an AgentLoad the      *)
(* counters, the durations and the performance score.  A float that is a   *)
(* quotient of two integers is kept as that fraction in lowest terms.  Of  *)
(* the assignments file the model keeps the last line of every task id:    *)
(* _load_assignments lets a later line of an id replace an earlier one     *)
(* (line 375) and nothing else reads the file.  reset is not called.       *)
(***************************************************************************)
ROUND_ROBIN == "round_robin"
RANDOM == "random"
LEAST_LOADED == "least_loaded"
WEIGHTED == "weighted"
PERFORMANCE_BASED == "performance_based"
LoadBalancingStrategy ==
    {ROUND_ROBIN, RANDOM, LEAST_LOADED, WEIGHTED, PERFORMANCE_BASED}

TaskIds == {"task1", "task2"}

\* the candidate lists assign_task is called with
CandidateLists ==
    {<<>>, <<"agent1">>, <<"agent1", "agent2">>,
     <<"agent2", "agent3", "agent1">>}

Candidates == UNION {{l[i] : i \in DOMAIN l} : l \in CandidateLists}

\* the weights argument, in hundredths: none, one candidate without weight,
\* and weights that give no candidate a share
WeightChoices ==
    {<<>>,
     ("agent1" :> 0),
     ("agent1" :> 5) @@ ("agent2" :> 0) @@ ("agent3" :> -100)}

\* execution_time, in seconds
Durations == {1, 2}

RECURSIVE Gcd(_, _)
Gcd(a, b) == IF b = 0 THEN a ELSE Gcd(b, a % b)

\* the float n / d, d > 0
Frac(n, d) ==
    LET g == Gcd(IF n < 0 THEN -n ELSE n, d)
    IN [n |-> n \div g, d |-> d \div g]

\* x > y for two floats
Greater(x, y) == x.n * y.d > y.n * x.d

\* TaskAssignment (lines 29-42)
TaskAssignment(agent_id, strategy) ==
    [agent_id |-> agent_id, strategy |-> strategy, actual_completion |-> None,
     execution_time |-> 0, success |-> TRUE]

\* AgentLoad (lines 45-57)
AgentLoad ==
    [active_tasks |-> 0, completed_tasks |-> 0, failed_tasks |-> 0,
     total_execution_time |-> 0, average_execution_time |-> Frac(0, 1),
     performance_score |-> Frac(1, 1)]

\* the balancer object: its fields and its file
Balancer ==
    [assignments |-> assignments, agent_loads |-> agent_loads,
     round_robin_index |-> round_robin_index,
     assignments_file |-> assignments_file]

\* self.agent_loads.get(agent_id, AgentLoad(agent_id=agent_id, name=""))
LoadOrDefault(o, agent_id) ==
    IF agent_id \in DOMAIN o.agent_loads THEN o.agent_loads[agent_id]
    ELSE AgentLoad

\* _save_assignment (lines 356-362)
save_assignment(o, task_id, assignment) ==
    [o EXCEPT !.assignments_file = (task_id :> assignment) @@ @]

\* _load_assignments (lines 364-379)
load_assignments(o) == [o EXCEPT !.assignments = o.assignments_file]

\* _assign_round_robin that leaves the pointer where it is
assign_round_robin_stuck(o, candidates) ==
    [ret |-> candidates[(o.round_robin_index % Len(candidates)) + 1], obj |-> o]

\* _assign_round_robin (lines 284-293)
assign_round_robin(o, candidates) ==
    [ret |-> candidates[(o.round_robin_index % Len(candidates)) + 1],
     obj |-> [o EXCEPT !.round_robin_index = @ + 1]]

\* the loop of lines 305-312 from candidate i on; selected = None stands for
\* min_load = inf
RECURSIVE least_loaded_loop(_, _, _, _, _)
least_loaded_loop(o, candidates, i, min_load, selected) ==
    IF i > Len(candidates) THEN selected
    ELSE LET current_load == LoadOrDefault(o, candidates[i]).active_tasks
         IN IF selected = None \/ current_load < min_load
            THEN least_loaded_loop(o, candidates, i + 1, current_load, candidates[i])
            ELSE least_loaded_loop(o, candidates, i + 1, min_load, selected)

\* _assign_least_loaded that takes the first candidate whatever the loads
assign_least_loaded_first(o, candidates) == candidates[1]

\* _assign_least_loaded (lines 295-314)
assign_least_loaded(o, candidates) == least_loaded_loop(o, candidates, 1, 0, None)

\* int(weight * 10) (line 329) of a weight in hundredths
Copies(weights, agent_id) ==
    IF agent_id \notin DOMAIN weights THEN 10
    ELSE IF weights[agent_id] >= 0 THEN weights[agent_id] \div 10
    ELSE -((-weights[agent_id]) \div 10)

\* _assign_weighted (lines 316-331): every agent random.choice can return
assign_weighted(candidates, weights) ==
    LET weighted_agents ==
            {candidates[i] : i \in {j \in DOMAIN candidates :
                                   Copies(weights, candidates[j]) > 0}}
    IN IF weighted_agents # {} THEN weighted_agents ELSE {candidates[1]}

\* line 348
Score(load) ==
    Frac(load.performance_score.n * (10 - load.active_tasks),
         load.performance_score.d * 10)

\* the loop of lines 343-352 from candidate i on
RECURSIVE performance_loop(_, _, _, _, _)
performance_loop(o, candidates, i, best_score, best_agent) ==
    IF i > Len(candidates) THEN best_agent
    ELSE LET score == Score(LoadOrDefault(o, candidates[i]))
         IN IF Greater(score, best_score)
            THEN performance_loop(o, candidates, i + 1, score, candidates[i])
            ELSE performance_loop(o, candidates, i + 1, best_score, best_agent)

\* _assign_performance_based (lines 333-354)
assign_performance_based(o, candidates) ==
    performance_loop(o, candidates, 1, Frac(0, 1), None)

\* lines 104-117: every [ret, obj] the chosen strategy can select
select_agent(o, candidates, strategy, weights) ==
    IF strategy = ROUND_ROBIN THEN {assign_round_robin(o, candidates)}
    ELSE IF strategy = RANDOM
    THEN {[ret |-> candidates[i], obj |-> o] : i \in DOMAIN candidates}
    ELSE IF strategy = LEAST_LOADED
    THEN {[ret |-> assign_least_loaded(o, candidates), obj |-> o]}
    ELSE IF strategy = WEIGHTED
    THEN {[ret |-> a, obj |-> o] : a \in assign_weighted(candidates, weights)}
    ELSE {[ret |-> assign_performance_based(o, candidates), obj |-> o]}

\* lines 119-140 with a new AgentLoad for every assignment
record_assignment_fresh_load(o, task_id, strategy, selected_agent) ==
    IF selected_agent = None THEN o
    ELSE LET assignment == TaskAssignment(selected_agent, strategy)
             o1 == save_assignment(
                      [o EXCEPT !.assignments = (task_id :> assignment) @@ @],
                      task_id, assignment)
         IN [o1 EXCEPT !.agent_loads =
                (selected_agent :> [AgentLoad EXCEPT !.active_tasks = 1]) @@ @]

\* lines 119-140 for the selected agent
record_assignment(o, task_id, strategy, selected_agent) ==
    IF selected_agent = None THEN o
    ELSE LET assignment == TaskAssignment(selected_agent, strategy)
             o1 == save_assignment(
                      [o EXCEPT !.assignments = (task_id :> assignment) @@ @],
                      task_id, assignment)
             loads1 == IF selected_agent \notin DOMAIN o1.agent_loads
                       THEN (selected_agent :> AgentLoad) @@ o1.agent_loads
                       ELSE o1.agent_loads
         IN [o1 EXCEPT !.agent_loads =
                [loads1 EXCEPT ![selected_agent].active_tasks = @ + 1]]

\* assign_task (lines 83-140): every [ret, obj] the call can end with
assign_task(o, task_id, candidates, strategy, weights) ==
    IF candidates = <<>> THEN {[ret |-> None, obj |-> o]}
    ELSE {[ret |-> s.ret,
           obj |-> record_assignment(s.obj, task_id, strategy, s.ret)] :
             s \in select_agent(o, candidates, strategy, weights)}

\* lines 172-193
update_load(load, execution_time, success) ==
    LET completed == load.completed_tasks + (IF success THEN 1 ELSE 0)
        failed == load.failed_tasks + (IF success THEN 0 ELSE 1)
        total == load.total_execution_time + execution_time
        total_tasks == completed + failed
    IN [active_tasks |-> Max(0, load.active_tasks - 1),
        completed_tasks |-> completed,
        failed_tasks |-> failed,
        total_execution_time |-> total,
        average_execution_time |->
            IF total_tasks > 0 THEN Frac(total, total_tasks)
            ELSE load.average_execution_time,
        performance_score |->
            IF total_tasks > 0 THEN Frac(completed, total_tasks)
            ELSE load.performance_score]

\* lines 165-196: the task is in self.assignments
complete_assigned(o, task_id, execution_time, success) ==
    LET assignment ==
            [o.assignments[task_id] EXCEPT
                !.actual_completion = "now",
                !.execution_time = execution_time,
                !.success = success]
        agent_id == assignment.agent_id
        o1 == [o EXCEPT !.assignments[task_id] = assignment]
        o2 == IF agent_id \in DOMAIN o1.agent_loads
              THEN [o1 EXCEPT !.agent_loads[agent_id] =
                       update_load(@, execution_time, success)]
              ELSE o1
    IN [ret |-> TRUE, obj |-> save_assignment(o2, task_id, assignment)]

\* complete_task that answers True for an unknown task id
complete_task_any_id(o, task_id, execution_time, success) ==
    IF task_id \notin DOMAIN o.assignments THEN [ret |-> TRUE, obj |-> o]
    ELSE complete_assigned(o, task_id, execution_time, success)

\* complete_task (lines 142-196)
complete_task(o, task_id, execution_time, success) ==
    IF task_id \notin DOMAIN o.assignments THEN [ret |-> FALSE, obj |-> o]
    ELSE complete_assigned(o, task_id, execution_time, success)

\* get_load_statistics (lines 228-273): the four totals
get_load_statistics(o) ==
    IF DOMAIN o.agent_loads = {}
    THEN [total_tasks |-> 0, active_tasks |-> 0, completed_tasks |-> 0,
          failed_tasks |-> 0]
    ELSE LET loads == DOMAIN o.agent_loads
         IN [total_tasks |-> Cardinality(DOMAIN o.assignments),
             active_tasks |->
                Sum([a \in loads |-> o.agent_loads[a].active_tasks], loads),
             completed_tasks |->
                Sum([a \in loads |-> o.agent_loads[a].completed_tasks], loads),
             failed_tasks |->
                Sum([a \in loads |-> o.agent_loads[a].failed_tasks], loads)]

(***************************************************************************)
(* Actions of the load balancer                                            *)
(***************************************************************************)
\* what the last call was and what it returned; of a call that selected no
\* agent or returned False the arguments are not kept
LbCall(op, task_id, strategy, ret, ok) ==
    IF ok
    THEN [op |-> op, task_id |-> task_id, strategy |-> strategy, ret |-> ret,
          ok |-> TRUE]
    ELSE [op |-> op, task_id |-> "", strategy |-> "", ret |-> None,
          ok |-> FALSE]

NoRun == [candidates |-> <<>>, picks |-> <<>>]

\* __init__ (lines 63-81) with no assignments file
LbInit ==
    /\ assignments = <<>>
    /\ agent_loads = <<>>
    /\ round_robin_index = 0
    /\ assignments_file = <<>>
    /\ lb_calls = 0
    /\ lb_last = LbCall("none", "", "", None, FALSE)
    /\ rr_run = NoRun

\* assign every field of the balancer object
LbBecomes(o) ==
    /\ assignments' = o.assignments
    /\ agent_loads' = o.agent_loads
    /\ round_robin_index' = o.round_robin_index
    /\ assignments_file' = o.assignments_file

AssignTask(task_id, candidates, strategy, weights) ==
    /\ UNCHANGED <<frVars, ssVars, rcVars, wrVars, stVars, rpcVars, lnVars, anVars>>
    /\ lb_calls < MaxCalls
    /\ lb_calls' = lb_calls + 1
    /\ \E r \in assign_task(Balancer, task_id, candidates, strategy, weights) :
          /\ LbBecomes(r.obj)
          /\ lb_last' = LbCall("assign_task", task_id, strategy, r.ret,
                               r.ret # None)
          /\ rr_run' =
                IF strategy # ROUND_ROBIN \/ candidates = <<>> THEN rr_run
                ELSE IF candidates = rr_run.candidates
                THEN [rr_run EXCEPT !.picks = Append(@, r.ret)]
                ELSE [candidates |-> candidates, picks |-> <<r.ret>>]

CompleteTask(task_id, execution_time, success) ==
    /\ UNCHANGED <<frVars, ssVars, rcVars, wrVars, stVars, rpcVars, lnVars, anVars>>
    /\ lb_calls < MaxCalls
    /\ lb_calls' = lb_calls + 1
    /\ \E r \in {complete_task(Balancer, task_id, execution_time, success)} :
          /\ LbBecomes(r.obj)
          /\ lb_last' = LbCall("complete_task", task_id, "", None, r.ret)
    /\ UNCHANGED rr_run

\* a new LoadBalancer over the same data directory (lines 63-81)
LbRestart ==
    /\ UNCHANGED <<frVars, ssVars, rcVars, wrVars, stVars, rpcVars, lnVars, anVars>>
    /\ LbBecomes(load_assignments(
          [assignments |-> <<>>, agent_loads |-> <<>>, round_robin_index |-> 0,
           assignments_file |-> assignments_file]))
    /\ lb_last' = LbCall("restart", "", "", None, FALSE)
    /\ rr_run' = NoRun
    /\ UNCHANGED lb_calls

BalanceNext ==
    \/ \E task_id \in TaskIds, candidates \in CandidateLists,
          strategy \in LoadBalancingStrategy :
          \E weights \in IF strategy = WEIGHTED THEN WeightChoices ELSE {<<>>} :
             AssignTask(task_id, candidates, strategy, weights)
    \/ \E task_id \in TaskIds, execution_time \in Durations,
          success \in BOOLEAN :
          CompleteTask(task_id, execution_time, success)
    \/ LbRestart

\* one LoadBalancer object whose callers assign every task id at most once
\* and complete it at most once
BalanceOnceNext ==
    \/ \E task_id \in TaskIds \ DOMAIN assignments,
          candidates \in CandidateLists, strategy \in LoadBalancingStrategy :
          \E weights \in IF strategy = WEIGHTED THEN WeightChoices ELSE {<<>>} :
             AssignTask(task_id, candidates, strategy, weights)
    \/ \E task_id \in {t \in TaskIds : t \in DOMAIN assignments =>
                                         assignments[t].actual_completion = None},
          execution_time \in Durations, success \in BOOLEAN :
          CompleteTask(task_id, execution_time, success)

(***************************************************************************)
(* Properties of the load balancer                                         *)
(***************************************************************************)
\* the step is a call of op that returned something other than None or False
LbDone(op) == lb_last'.op = op /\ lb_last'.ok

\* the place of agent_id in a list of distinct candidates
IndexOf(candidates, agent_id) == CHOOSE i \in DOMAIN candidates : candidates[i] = agent_id

\* how often agent_id was picked
Picked(picks, agent_id) ==
    Cardinality({i \in DOMAIN picks : picks[i] = agent_id})

\* self.agent_loads.get(agent_id, AgentLoad(...)) before and after the step
LoadBefore(a) == LoadOrDefault(Balancer, a)
LoadAfter(a) ==
    IF a \in DOMAIN agent_loads' THEN agent_loads'[a] ELSE AgentLoad

\* the load record of every agent but a is what it was
OthersUnchanged(a) ==
    \A b \in Candidates \ {a} :
        /\ (b \in DOMAIN agent_loads') = (b \in DOMAIN agent_loads)
        /\ b \in DOMAIN agent_loads => agent_loads'[b] = agent_loads[b]

\* C21: consecutive round_robin assign_task calls over the same list of M
\* distinct candidates, with no other round_robin assignment in between,
\* select the candidates in cyclic list order: each pick is the successor in
\* the list of the pick before, wrapping from the last to the first; after a
\* number of calls that is a multiple of M every candidate has been selected
\* the same number of times, whatever the pointer was before the first call.
C21_CyclicStep ==
    (/\ rr_run'.candidates = rr_run.candidates
     /\ rr_run.picks # <<>>
     /\ Len(rr_run'.picks) = Len(rr_run.picks) + 1)
        => LET l == rr_run.candidates
               prev == rr_run.picks[Len(rr_run.picks)]
               pick == rr_run'.picks[Len(rr_run'.picks)]
           IN pick = l[(IndexOf(l, prev) % Len(l)) + 1]

C21_EvenShare ==
    LET l == rr_run.candidates
        n == Len(rr_run.picks)
    IN (l # <<>> /\ n % Len(l) = 0)
          => \A i \in DOMAIN l : Picked(rr_run.picks, l[i]) = n \div Len(l)

C21_RoundRobinCyclic == []C21_EvenShare /\ [][C21_CyclicStep]_vars

C21_Witness ==
    /\ lb_last.op = "assign_task"
    /\ lb_last.strategy = ROUND_ROBIN
    /\ Len(rr_run.candidates) >= 2
    /\ Len(rr_run.picks) = Len(rr_run.candidates)
    /\ rr_run.picks[1] # rr_run.candidates[1]

\* C22: assign_task returns None only for an empty candidate list: for every
\* strategy and every non-empty candidate list, in every reachable load
\* state, it returns a member of the list and records the assignment; with
\* an empty list it returns None and changes nothing.
C22_NoneOnlyForEmptyList ==
    \A task_id \in TaskIds, candidates \in CandidateLists,
       strategy \in LoadBalancingStrategy, weights \in WeightChoices :
        \A r \in assign_task(Balancer, task_id, candidates, strategy, weights) :
            IF candidates = <<>>
            THEN r.ret = None /\ r.obj = Balancer
            ELSE /\ r.ret \in {candidates[i] : i \in DOMAIN candidates}
                 /\ task_id \in DOMAIN r.obj.assignments
                 /\ r.obj.assignments[task_id].agent_id = r.ret

\* C23: a task is completed exactly once: after complete_task has returned
\* True for a task id, a further complete_task for the same id changes no
\* agent's active, completed or failed counter and no performance score.
C23_Step ==
    (/\ LbDone("complete_task")
     /\ assignments[lb_last'.task_id].actual_completion # None)
        => \A a \in Candidates :
              /\ LoadAfter(a).active_tasks = LoadBefore(a).active_tasks
              /\ LoadAfter(a).completed_tasks = LoadBefore(a).completed_tasks
              /\ LoadAfter(a).failed_tasks = LoadBefore(a).failed_tasks
              /\ LoadAfter(a).performance_score = LoadBefore(a).performance_score

C23_CompletedOnce == [][C23_Step]_vars

\* C24: a task id is never reused: once assign_task recorded an assignment
\* for a task id, a later assign_task with the same id does not replace the
\* agent of that assignment and increments no agent's active counter again.
C24_Step ==
    (/\ LbDone("assign_task")
     /\ lb_last'.task_id \in DOMAIN assignments)
        => /\ assignments'[lb_last'.task_id].agent_id
                 = assignments[lb_last'.task_id].agent_id
           /\ \A a \in Candidates :
                 LoadAfter(a).active_tasks = LoadBefore(a).active_tasks

C24_IdNeverReused == [][C24_Step]_vars

\* C25: complete_task with a task id that was never assigned returns False
\* and changes nothing: the assignments, the counters, the durations and the
\* performance scores are what they were.
C25_UnknownResult ==
    \A task_id \in TaskIds, execution_time \in Durations, success \in BOOLEAN :
        task_id \notin DOMAIN assignments
            => complete_task(Balancer, task_id, execution_time, success)
                  = [ret |-> FALSE, obj |-> Balancer]

C25_Step ==
    (lb_last'.op = "complete_task" /\ ~lb_last'.ok)
        => UNCHANGED <<assignments, agent_loads, round_robin_index,
                       assignments_file>>

C25_UnknownIsNoOp == []C25_UnknownResult /\ [][C25_Step]_vars

C25_Witness ==
    /\ lb_last.op = "complete_task"
    /\ ~lb_last.ok
    /\ \E a \in DOMAIN agent_loads : agent_loads[a].active_tasks > 0
    /\ DOMAIN assignments # {}
    /\ DOMAIN assignments # TaskIds

\* C26: a complete_task that returns True for a task assigned to agent a
\* takes one from a's active count (never below zero), adds one to exactly
\* one of a's completed and failed counters and leaves a's performance score
\* at completed / (completed + failed), a value in [0, 1]; the load records
\* of the other agents are unchanged; and in every reachable state every
\* agent with completed + failed > 0 has exactly that score.
C26_Score ==
    \A a \in DOMAIN agent_loads :
        LET load == agent_loads[a]
            total == load.completed_tasks + load.failed_tasks
        IN total > 0
              => /\ load.performance_score = Frac(load.completed_tasks, total)
                 /\ ~Greater(Frac(0, 1), load.performance_score)
                 /\ ~Greater(load.performance_score, Frac(1, 1))

C26_Step ==
    LbDone("complete_task")
        => LET a == assignments[lb_last'.task_id].agent_id
               before == LoadBefore(a)
               after == LoadAfter(a)
           IN /\ after.active_tasks = Max(0, before.active_tasks - 1)
              /\ \/ /\ after.completed_tasks = before.completed_tasks + 1
                    /\ after.failed_tasks = before.failed_tasks
                 \/ /\ after.completed_tasks = before.completed_tasks
                    /\ after.failed_tasks = before.failed_tasks + 1
              /\ after.performance_score
                    = Frac(after.completed_tasks,
                           after.completed_tasks + after.failed_tasks)
              /\ OthersUnchanged(a)

C26_CompletionUpdatesLoad == []C26_Score /\ [][C26_Step]_vars

\* C27: an assign_task that selects agent a records a TaskAssignment for the
\* task id that names a and the strategy used and adds exactly one to a's
\* active counter; a's completed and failed counters and performance score
\* and the load record of every other agent are unchanged.
C27_Step ==
    LbDone("assign_task")
        => LET a == lb_last'.ret
           IN /\ lb_last'.task_id \in DOMAIN assignments'
              /\ assignments'[lb_last'.task_id].agent_id = a
              /\ assignments'[lb_last'.task_id].strategy = lb_last'.strategy
              /\ a \in DOMAIN agent_loads'
              /\ LoadAfter(a).active_tasks = LoadBefore(a).active_tasks + 1
              /\ LoadAfter(a).completed_tasks = LoadBefore(a).completed_tasks
              /\ LoadAfter(a).failed_tasks = LoadBefore(a).failed_tasks
              /\ LoadAfter(a).performance_score
                    = LoadBefore(a).performance_score
              /\ OthersUnchanged(a)

C27_AssignmentFrame == [][C27_Step]_vars

C27_Witness ==
    /\ lb_last.op = "assign_task"
    /\ lb_last.ret \in DOMAIN agent_loads
    /\ agent_loads[lb_last.ret].active_tasks = 1
    /\ agent_loads[lb_last.ret].failed_tasks = 1
    /\ assignments[lb_last.task_id].agent_id = lb_last.ret

\* the tasks assigned to agent a that are not completed, and the completed
Active(a) ==
    {t \in DOMAIN assignments : /\ assignments[t].agent_id = a
                                /\ assignments[t].actual_completion = None}
Completed(a) ==
    {t \in DOMAIN assignments : /\ assignments[t].agent_id = a
                                /\ assignments[t].actual_completion # None}

\* C39: in one LoadBalancer object whose task ids are each assigned at most
\* once and completed at most once, every agent's active_tasks is the number
\* of tasks assigned to it and not completed, its completed_tasks plus
\* failed_tasks the number of its completed tasks, and the sum over the
\* agents of active, completed and failed is the number of recorded
\* assignments.
C39_LoadConservation ==
    /\ \A a \in Candidates :
          /\ LoadBefore(a).active_tasks = Cardinality(Active(a))
          /\ LoadBefore(a).completed_tasks + LoadBefore(a).failed_tasks
                = Cardinality(Completed(a))
    /\ LET s == get_load_statistics(Balancer)
       IN s.active_tasks + s.completed_tasks + s.failed_tasks
             = Cardinality(DOMAIN assignments)

\* agent1 holds one completed and one active task
C39_Witness ==
    /\ lb_last.op = "assign_task"
    /\ DOMAIN assignments = TaskIds
    /\ Cardinality(Active("agent1")) = 1
    /\ Cardinality(Completed("agent1")) = 1
    /\ agent_loads["agent1"].failed_tasks = 1

\* the lists of two distinct candidates
Pairs == {<<a, b>> : a, b \in Candidates} \ {<<a, a>> : a \in Candidates}

\* C36: with the least_loaded strategy assign_task selects a candidate whose
\* active_tasks counter is minimal among the candidates, a candidate without
\* a load record counting as 0, and of several minimal ones the first in the
\* list; so after an assignment to one of two idle candidates the next
\* least_loaded assignment over the two goes to the other.
C36_SelectsFirstMinimal ==
    \A l \in (CandidateLists \cup Pairs) \ {<<>>} :
        \A r \in select_agent(Balancer, l, LEAST_LOADED, <<>>) :
            \E i \in DOMAIN l :
                /\ r.ret = l[i]
                /\ \A j \in DOMAIN l :
                      IF j < i
                      THEN LoadBefore(l[j]).active_tasks > LoadBefore(l[i]).active_tasks
                      ELSE LoadBefore(l[j]).active_tasks >= LoadBefore(l[i]).active_tasks

C36_NextGoesToOther ==
    \A l \in Pairs :
        (LoadBefore(l[1]).active_tasks = 0 /\ LoadBefore(l[2]).active_tasks = 0)
        => \A r1 \in assign_task(Balancer, "task1", l, LEAST_LOADED, <<>>) :
              \A r2 \in assign_task(r1.obj, "task2", l, LEAST_LOADED, <<>>) :
                 /\ r1.ret = l[1]
                 /\ r2.ret = l[2]

C36_LeastLoadedFirstMinimal == C36_SelectsFirstMinimal /\ C36_NextGoesToOther

\* the first least_loaded assignment went to agent1, the second to agent2,
\* and a third over agent2, agent3, agent1 goes to agent3
C36_Witness ==
    /\ lb_last.op = "assign_task"
    /\ lb_last.strategy = LEAST_LOADED
    /\ lb_last.ret = "agent2"
    /\ DOMAIN agent_loads = {"agent1", "agent2"}
    /\ \A a \in DOMAIN agent_loads : agent_loads[a].active_tasks = 1
    /\ assign_least_loaded(Balancer, <<"agent2", "agent3", "agent1">>) = "agent3"

Init ==
    /\ FrInit /\ SsInit /\ RcInit /\ RpcInit /\ LnInit /\ AnInit /\ LbInit
    /\ WrInit /\ StInit

\* the synchronizer alone: FaultRecovery is constructed and never called
SyncInit == Init /\ failure_threshold = 1 /\ reset_timeout = 0

FaultNext ==
    \/ Tick
    \/ \E a \in Agents : RegisterFailure(a)
    \/ \E a \in Agents : RecordSuccess(a)
    \/ \E a \in Agents : IsAgentHealthy(a)
    \/ \E a \in Agents, n \in 0..MaxRetries : CanRetry(a, n)
    \/ \E a \in Agents : RegisterRecoveryStrategy(a)
    \/ \E a \in Agents, ok \in BOOLEAN : AttemptRecovery(a, ok)

SpecFault == Init /\ [][FaultNext]_vars

FaultRestartNext ==
    \/ FaultNext
    \/ FrRestart

SpecFaultRestart == Init /\ [][FaultRestartNext]_vars

SpecSync == SyncInit /\ [][SyncNext]_vars
SpecPeerSync == SyncInit /\ [][PeerSyncNext]_vars
SpecSyncRestart == SyncInit /\ [][SyncRestartNext]_vars

SpecRace == SyncInit /\ [][RaceNext]_vars

SpecRpc == SyncInit /\ [][RpcNext]_vars

\* the listener of a server whose methods are registered
ListenInit ==
    /\ FrInit /\ failure_threshold = 1 /\ reset_timeout = 0
    /\ SsInit /\ RcInit /\ RpcInitWith(Handlers) /\ LnInit /\ AnInit
    /\ LbInit /\ WrInit /\ StInit

\* the accept loop thread and every handler thread keep running
SpecListen ==
    /\ ListenInit
    /\ [][ListenNext]_vars
    /\ WF_vars(AcceptLoop)
    /\ \A c \in Conns : WF_vars(HandleConn(c))

SpecListenFramed ==
    /\ ListenInit
    /\ [][ListenFramedNext]_vars
    /\ WF_vars(AcceptLoop)
    /\ \A c \in Conns : WF_vars(HandleConn(c))

SpecNetwork == SyncInit /\ [][NetworkNext]_vars
SpecNetworkRestart == SyncInit /\ [][NetworkRestartNext]_vars

\* a writer instance and the reader it sends its updates to
SpecReplica == SyncInit /\ [][ReplicaNext]_vars

SpecBalance == SyncInit /\ [][BalanceNext]_vars
SpecBalanceOnce == SyncInit /\ [][BalanceOnceNext]_vars

====
